---- MODULE Spec2Model ----
(***************************************************************************)
(* Token lifecycle and session management of the Server repository:        *)
(* login with session cap and FIFO eviction, refresh-token rotation,       *)
(* logout, password-wide revocation and session cleanup, for the two       *)
(* principal classes (USER, ADMIN).                                        *)
(*                                                                         *)
(* Time is counted in seconds (the resolution of the JWT iat/exp claims).  *)
(* A JWT string is modelled by what determines it: the signing secret, the *)
(* payload and the iat/exp claims.  Two tokens signed with the same secret *)
(* and payload within the same second are the same string.                 *)
(***************************************************************************)
EXTENDS Integers, Sequences, FiniteSets, TLC

(* ------------------------------ bounds -------------------------------- *)
MaxRows == 3
MaxAdvance == 2
MaxLogins == 4
MaxLoginAdvance == 3
MaxResets == 1
MaxFaultRows == 4
MaxCredRows == 4
MaxLogoutRows == 3
MaxConcLogoutRows == 2
MaxAuthRows == 2
MaxAuthAdvance == 2
MaxDelayRows == 3
MaxPasswordRows == 3
MaxCleanupRows == 1
MaxCleanupAdvance == 4
MaxExpireRows == 3
MaxExpireAdvance == 3
MaxResetRows == 1
MaxResetAdvance == 2
MaxMailed == 2
MaxStatelessRows == 3
MaxStatelessAdvance == 1
MaxInactiveRows == 3

\* The principals: the ids (and e-mail addresses) of the users and admins.
Users == {1, 2}
Admins == {1}

(* --------------------------- program constants ------------------------ *)
DAY == 86400
USER_MAX_ACTIVE_SESSIONS == 3
ADMIN_MAX_ACTIVE_SESSIONS == 2

USER_JWT_SECRET == "USER_JWT_SECRET"
USER_REFRESH_TOKEN_SECRET == "USER_REFRESH_TOKEN_SECRET"
ADMIN_JWT_SECRET == "ADMIN_JWT_SECRET"
ADMIN_REFRESH_TOKEN_SECRET == "ADMIN_REFRESH_TOKEN_SECRET"

\* The admin routes wired to the users' configuration.
adminRoutesOnUserConfig ==
  [ entity |-> "ADMIN", jwtSecret |-> USER_JWT_SECRET,
    refreshSecret |-> USER_REFRESH_TOKEN_SECRET, refreshDuration |-> 30,
    table |-> "userRefreshToken" ]

\* The users' configuration with one secret for both roles.
userAuthConfigSharedSecret ==
  [ entity |-> "USER", jwtSecret |-> USER_REFRESH_TOKEN_SECRET,
    refreshSecret |-> USER_REFRESH_TOKEN_SECRET, refreshDuration |-> 30,
    table |-> "userRefreshToken" ]

userAuthConfig ==
  [ entity |-> "USER",
    jwtSecret |-> USER_JWT_SECRET,
    refreshSecret |-> USER_REFRESH_TOKEN_SECRET,
    refreshDuration |-> 30,
    table |-> "userRefreshToken" ]

adminAuthConfig ==
  [ entity |-> "ADMIN",
    jwtSecret |-> ADMIN_JWT_SECRET,
    refreshSecret |-> ADMIN_REFRESH_TOKEN_SECRET,
    refreshDuration |-> 7,
    table |-> "adminRefreshToken" ]

Configs == {userAuthConfig, adminAuthConfig}

(* ------------------------------ JWT ----------------------------------- *)
\* No session id: a payload without a sessionId field, a request without a
\* sessionId cookie.
NoSession == <<"", 0>>

\* jwt.sign(payload, secret, {expiresIn}) at second t.
JwtSign(id, sessionId, secret, ttl, t) ==
  [ secret |-> secret, id |-> id, sessionId |-> sessionId,
    iat |-> t, exp |-> t + ttl ]

\* A string that is not signed with any of the server's secrets.
ForgedToken ==
  [ secret |-> "forged", id |-> 1, sessionId |-> NoSession, iat |-> 0,
    exp |-> 100 * DAY ]

\* The request carries no refreshToken cookie.
NoToken ==
  [ secret |-> "", id |-> 0, sessionId |-> NoSession, iat |-> 0, exp |-> 0 ]

\* jwt.verify(token, secret) at second t: the signature is checked first,
\* then the exp claim.
JwtVerify(token, secret, t) ==
  IF token.secret # secret THEN "JsonWebTokenError"
  ELSE IF t >= token.exp THEN "TokenExpiredError"
  ELSE "ok"

(* ------------------------- error handling ----------------------------- *)
APIExceptions ==
  { "BadRequestException", "UnauthorizedException", "ForbiddenException",
    "NotFoundException", "InternalServerError" }

\* errorHandler: an APIException is passed on, a ZodError becomes a
\* BadRequestException, anything else an InternalServerError.
errorHandler(error) ==
  IF error \in APIExceptions THEN error
  ELSE IF error = "ZodError" THEN "BadRequestException"
  ELSE "InternalServerError"

\* enum ErrorCode: the names of its members.
ErrorCode ==
  { "NOT_FOUND", "ALREADY_EXISTS", "UNPROCESSABLE_ENTITY", "INVALID_PASSWORD",
    "INVALID_REQUEST", "INVALID_EMAIL", "INTERNAL_SERVER_ERROR",
    "EMAIL_SENDING_FAILED", "SERVICE_UNAVAILABLE", "UNAUTHORIZED",
    "INVALID_TOKEN", "REFRESH_TOKEN_EXPIRED", "REFRESH_TOKEN_REVOKED",
    "FORBIDDEN", "INVALID_SESSION", "INVALID_CSRF_TOKEN" }

\* The expression ErrorCode.<member>: undefined when the enum has no such
\* member.
ErrorCodeMember(member) ==
  IF member \in ErrorCode THEN member ELSE "undefined"

\* new UnauthorizedException(message, errorCode): the parameter errorCode has
\* the default ErrorCode.UNAUTHORIZED, which an undefined argument selects.
UnauthorizedException(message, errorCode) ==
  [ name |-> "UnauthorizedException", message |-> message,
    errorCode |-> IF errorCode = "undefined"
                  THEN ErrorCodeMember("UNAUTHORIZED") ELSE errorCode ]

(* ------------------------------ bcrypt -------------------------------- *)
Passwords == {"Passw0rdA", "Passw0rdB"}
hashSync(password) == <<"bcrypt", password>>
compare(password, hash) == hash = hashSync(password)

(* ------------------------------ state --------------------------------- *)
VARIABLES
  now,                \* Date.now() in seconds
  advances,           \* number of clock advances so far
  userRefreshToken,   \* table UserRefreshToken: set of rows
  adminRefreshToken,  \* table AdminRefreshToken: set of rows
  nextId,             \* autoincrement counters of the two tables
  users,              \* table users
  admins,             \* table admins
  issued,             \* refresh tokens handed out, with the entity that minted them
  accepted,           \* (entity, token) pairs a refresh call has accepted
  last,               \* the request being answered and its response
  tx,                 \* the requests in flight when requests overlap
  loggedOut,          \* history: the (entity, principal, sessionId) of the
                      \* logouts that succeeded, where logouts are recorded
  scheduler,          \* scheduleSessionCleanup: isRunning, retryDelay,
                      \* retryCount, and the runs and ticks of the task
  resets              \* history: the reset tokens mailed, those setPassword
                      \* accepted and those it refused later, where recorded

vars == << now, advances, userRefreshToken, adminRefreshToken, nextId,
           users, admins, issued, accepted, last, tx, loggedOut, scheduler, resets >>

Table(name) ==
  IF name = "userRefreshToken" THEN userRefreshToken ELSE adminRefreshToken

ConfigOf(entity) == IF entity = "USER" THEN userAuthConfig ELSE adminAuthConfig

\* MAX_ACTIVE_SESSIONS of the login of a class of principals.
Cap(entity) ==
  IF entity = "USER" THEN USER_MAX_ACTIVE_SESSIONS ELSE ADMIN_MAX_ACTIVE_SESSIONS

(* --------------------------- session store ---------------------------- *)
\* prisma <table>.create with createdAt @default(now()), revoked @default(false)
CreateRow(rows, id, token, ownerId, sessionId, expiresAt, t) ==
  rows \cup { [ id |-> id, token |-> token, ownerId |-> ownerId,
                sessionId |-> sessionId, createdAt |-> t,
                expiresAt |-> expiresAt, revoked |-> FALSE ] }

\* A sessionId column without the unique constraint: no create fails.
SessionIdNeverUsed(rows, sessionId) == FALSE

\* sessionId is @unique: a create with a used sessionId fails.
SessionIdUsed(rows, sessionId) == \E r \in rows : r.sessionId = sessionId

\* prisma <table>.update({where: {id}, data: {revoked: true}})
RevokeById(rows, id) ==
  { IF r.id = id THEN [r EXCEPT !.revoked = TRUE] ELSE r : r \in rows }

\* The non-revoked rows of a principal: where {ownerId, revoked: false}
ActiveOf(rows, ownerId) == { r \in rows : r.ownerId = ownerId /\ ~r.revoked }

\* The rows of a principal, revoked or not.
RowsOf(rows, ownerId) == { r \in rows : r.ownerId = ownerId }

\* prisma <table>.count({where: {ownerId, revoked: false}})
CountActive(rows, ownerId) == Cardinality(ActiveOf(rows, ownerId))

\* findFirst with orderBy: {createdAt: 'desc'}: the newest row instead.
NewestActive(rows, ownerId) ==
  { r \in { q \in rows : q.ownerId = ownerId /\ ~q.revoked } :
      \A q \in { q \in rows : q.ownerId = ownerId /\ ~q.revoked } :
        r.createdAt >= q.createdAt }

\* prisma <table>.findFirst({where: {ownerId, revoked: false},
\* orderBy: {createdAt: 'asc'}}): the candidates; rows with equal createdAt
\* are returned in no defined order.
OldestActive(rows, ownerId) ==
  { r \in ActiveOf(rows, ownerId) :
      \A q \in ActiveOf(rows, ownerId) : r.createdAt <= q.createdAt }

\* prisma <table>.findFirst({where: {token, revoked: false}}): the candidates.
FindRefreshToken(rows, token) ==
  { r \in rows : r.token = token /\ ~r.revoked }

\* An updateMany on the sessionId alone: where {sessionId, revoked: false}
RevokeBySessionAnyOwner(rows, ownerId, sessionId) ==
  { IF r.sessionId = sessionId /\ ~r.revoked
      THEN [r EXCEPT !.revoked = TRUE] ELSE r : r \in rows }

\* prisma <table>.updateMany({where: {ownerId, sessionId, revoked: false},
\* data: {revoked: true}})
RevokeBySession(rows, ownerId, sessionId) ==
  { IF r.ownerId = ownerId /\ r.sessionId = sessionId /\ ~r.revoked
      THEN [r EXCEPT !.revoked = TRUE] ELSE r : r \in rows }

\* An updateMany on all the rows of the owners that writes revoked: false.
UnrevokeAllOf(rows, ownerIds) ==
  { IF r.ownerId \in ownerIds THEN [r EXCEPT !.revoked = FALSE] ELSE r :
      r \in rows }

\* prisma <table>.updateMany({where: {ownerId in ids, revoked: false},
\* data: {revoked: true}})
RevokeAllOf(rows, ownerIds) ==
  { IF r.ownerId \in ownerIds /\ ~r.revoked
      THEN [r EXCEPT !.revoked = TRUE] ELSE r : r \in rows }

\* crypto.randomUUID(): the values generated so far, and a value never
\* generated before.  A UUID is represented by the table and the row number
\* it was generated for.
GeneratedUUIDs ==
  { r.sessionId : r \in userRefreshToken \cup adminRefreshToken }
FreshUUID(table) == <<table, nextId[table]>>

(* ------------------------- requests and responses --------------------- *)
\* The request (op, entity, principal, token, sessionId: the e-mail or the
\* authenticated principal, the refreshToken and sessionId cookies) and its
\* response (outcome, and the refreshToken and sessionId cookies it sets).
Response(op, entity, principal, token, sessionId, outcome, newToken, newSessionId) ==
  [ op |-> op, entity |-> entity, principal |-> principal, token |-> token,
    sessionId |-> sessionId, outcome |-> outcome, newToken |-> newToken,
    newSessionId |-> newSessionId, delay |-> 0, message |-> "",
    errorCode |-> "" ]

\* errorMiddleware: the response to an APIException carries its message and
\* its errorCode.
errorMiddleware(response, exception) ==
  [response EXCEPT !.outcome = exception.name, !.message = exception.message,
                   !.errorCode = exception.errorCode]

\* await new Promise(resolve => setTimeout(resolve, ms)) before the response:
\* the milliseconds the handler slept are part of what the caller observes.
setTimeout(response, ms) == [response EXCEPT !.delay = ms]

\* No request is being answered.
Idle == Response("none", "", 0, NoToken, NoSession, "", NoToken, NoSession)

\* users.resetToken when null (resetTokenExpiry is then -1), and the value
\* crypto.randomBytes(64) returns for a request of a user at second t.
NoReset == <<0, -1>>
RandomBytes(userId, t) == <<userId, t>>

\* The requests the server handles at the same time, and the state of one:
\* pc is the statement it executes next, count, oldest and stored are what
\* its reads returned, overlap tells whether another request was in flight
\* when it arrived.
Procs == { "p1", "p2" }

IdleTx ==
  [ pc |-> "idle", op |-> "none", entity |-> "", principal |-> 0,
    token |-> NoToken, sessionId |-> NoSession, newToken |-> NoToken,
    count |-> 0, oldest |-> 0, stored |-> 0, outcome |-> "", overlap |-> FALSE,
    password |-> "" ]

(* ------------------------- the cleanup scheduler ---------------------- *)
\* 60 * 1000, 24 * 60 * 60 * 1000 and 72 * 60 * 60 * 1000 milliseconds
MIN_RETRY_DELAY == 60000
MAX_RETRY_DELAY == 86400000
CLEANUP_INTERVAL == 259200000

\* The task without the isRunning check.
cleanupTaskUnguarded(s) ==
  [s EXCEPT !.isRunning = TRUE, !.running = @ + 1, !.phase = "inactive",
            !.failedAt = -1]

\* cleanupTask up to its await: a call that finds isRunning set logs and
\* returns; otherwise it sets the flag and calls runCleanup.  running is the
\* number of runCleanup calls in progress, phase the statement the run is
\* at, skips the number of calls that returned at once, failedAt the time
\* the last run threw while no run has started since (-1 otherwise).
cleanupTask(s) ==
  IF s.isRunning
  THEN [s EXCEPT !.skips = @ + 1]
  ELSE [s EXCEPT !.isRunning = TRUE, !.running = @ + 1, !.phase = "inactive",
                 !.failedAt = -1]

\* scheduleSessionCleanup(): the variables of the closure, the call of
\* cleanupTask() at startup and setInterval(cleanupTask, CLEANUP_INTERVAL).
scheduleSessionCleanup ==
  [ cleanupTask([ isRunning |-> FALSE, retryDelay |-> MIN_RETRY_DELAY,
                  retryCount |-> 0, running |-> 0, phase |-> "none",
                  skips |-> 0, failedAt |-> -1, nextTick |-> 0 ])
    EXCEPT !.nextTick = CLEANUP_INTERVAL \div 1000 ]

(* ------------------------------- Init --------------------------------- *)
Init ==
  /\ now = 0
  /\ advances = 0
  /\ userRefreshToken = {}
  /\ adminRefreshToken = {}
  /\ nextId = [ userRefreshToken |-> 1, adminRefreshToken |-> 1 ]
  /\ users = [ u \in Users |->
                 [ password |-> hashSync("Passw0rdA"), isActive |-> TRUE,
                   lastLogin |-> -1, resetToken |-> NoReset,
                   resetTokenExpiry |-> -1 ] ]
  /\ admins = [ a \in Admins |-> [ password |-> hashSync("Passw0rdA") ] ]
  /\ issued = {}
  /\ accepted = {}
  /\ last = Idle
  /\ tx = [ p \in Procs |-> IdleTx ]
  /\ loggedOut = {}
  /\ scheduler = scheduleSessionCleanup
  /\ resets = [ mailed |-> {}, used |-> {}, refused |-> {} ]

(* ------------------------------- clock -------------------------------- *)
\* d seconds pass.
Advance(d) ==
  /\ now' = now + d
  /\ advances' = advances + 1
  /\ UNCHANGED << userRefreshToken, adminRefreshToken, nextId,
                  users, admins, issued, accepted, last >>

(* ------------------------------ helpers ------------------------------- *)
SetTable(name, rows) ==
  /\ userRefreshToken' = IF name = "userRefreshToken" THEN rows ELSE userRefreshToken
  /\ adminRefreshToken' = IF name = "adminRefreshToken" THEN rows ELSE adminRefreshToken

\* The cap check with > in place of >=: one session too many is let in.
EvictOldestAboveCap(rows, ownerId, maxActive) ==
  IF CountActive(rows, ownerId) > maxActive /\ OldestActive(rows, ownerId) # {}
  THEN { RevokeById(rows, oldestSession.id) :
           oldestSession \in OldestActive(rows, ownerId) }
  ELSE { rows }

\* The cap check of login: when the principal has MAX_ACTIVE_SESSIONS or more
\* non-revoked rows, the oldest one is revoked.  The set of possible results.
EvictOldest(rows, ownerId, maxActive) ==
  IF CountActive(rows, ownerId) >= maxActive /\ OldestActive(rows, ownerId) # {}
  THEN { RevokeById(rows, oldestSession.id) :
           oldestSession \in OldestActive(rows, ownerId) }
  ELSE { rows }

(* ------------------------------- login -------------------------------- *)
\* UserService.login answering at once when no user has the address: only
\* a wrong password is delayed.
UserLoginEarlyExit(email, password, sessionId) ==
  LET refreshToken ==
        JwtSign(email, sessionId, USER_REFRESH_TOKEN_SECRET, 30 * DAY, now)
      expiresAt == now + 30 * DAY
      Fail(error, ms) ==
        /\ last' = setTimeout(Response("login", "USER", email, NoToken, NoSession,
                                       errorHandler(error), NoToken, NoSession), ms)
        /\ UNCHANGED << now, advances, userRefreshToken, adminRefreshToken,
                        nextId, users, admins, issued, accepted >>
  IN
  IF email \notin Users THEN
    Fail("BadRequestException", 0)
  ELSE IF ~compare(password, users[email].password) THEN
    Fail("BadRequestException", 200)
  ELSE IF ~users[email].isActive THEN
    Fail("ForbiddenException", 0)
  ELSE IF SessionIdUsed(userRefreshToken, sessionId) THEN
    \* the create violates the unique constraint: the transaction rolls back
    Fail("PrismaClientKnownRequestError", 0)
  ELSE
    /\ \E evicted \in EvictOldest(userRefreshToken, email, USER_MAX_ACTIVE_SESSIONS) :
         userRefreshToken' =
           CreateRow(evicted, nextId.userRefreshToken, refreshToken, email,
                     sessionId, expiresAt, now)
    /\ users' = [users EXCEPT ![email].lastLogin = now]
    /\ nextId' = [nextId EXCEPT !.userRefreshToken = @ + 1]
    /\ issued' = issued \cup { <<"USER", refreshToken>> }
    /\ last' = Response("login", "USER", email, NoToken, NoSession,
                        "ok", refreshToken, sessionId)
    /\ UNCHANGED << now, advances, adminRefreshToken, admins, accepted >>

\* UserService.login with the isActive check ahead of the credential check.
UserLoginActiveFirst(email, password, sessionId) ==
  LET refreshToken ==
        JwtSign(email, sessionId, USER_REFRESH_TOKEN_SECRET, 30 * DAY, now)
      expiresAt == now + 30 * DAY
      Fail(error, ms) ==
        /\ last' = setTimeout(Response("login", "USER", email, NoToken, NoSession,
                                       errorHandler(error), NoToken, NoSession), ms)
        /\ UNCHANGED << now, advances, userRefreshToken, adminRefreshToken,
                        nextId, users, admins, issued, accepted >>
  IN
  IF email \in Users /\ ~users[email].isActive THEN
    Fail("ForbiddenException", 0)
  ELSE IF email \notin Users \/ ~compare(password, users[email].password) THEN
    Fail("BadRequestException", 200)
  ELSE IF SessionIdUsed(userRefreshToken, sessionId) THEN
    \* the create violates the unique constraint: the transaction rolls back
    Fail("PrismaClientKnownRequestError", 0)
  ELSE
    /\ \E evicted \in EvictOldest(userRefreshToken, email, USER_MAX_ACTIVE_SESSIONS) :
         userRefreshToken' =
           CreateRow(evicted, nextId.userRefreshToken, refreshToken, email,
                     sessionId, expiresAt, now)
    /\ users' = [users EXCEPT ![email].lastLogin = now]
    /\ nextId' = [nextId EXCEPT !.userRefreshToken = @ + 1]
    /\ issued' = issued \cup { <<"USER", refreshToken>> }
    /\ last' = Response("login", "USER", email, NoToken, NoSession,
                        "ok", refreshToken, sessionId)
    /\ UNCHANGED << now, advances, adminRefreshToken, admins, accepted >>

\* UserService.login(email, password) behind errorHandler.  email = 0 is an
\* address no user has; sessionId is the value crypto.randomUUID() returns.
UserLogin(email, password, sessionId) ==
  LET refreshToken ==
        JwtSign(email, sessionId, USER_REFRESH_TOKEN_SECRET, 30 * DAY, now)
      expiresAt == now + 30 * DAY
      Fail(error, ms) ==
        /\ last' = setTimeout(Response("login", "USER", email, NoToken, NoSession,
                                       errorHandler(error), NoToken, NoSession), ms)
        /\ UNCHANGED << now, advances, userRefreshToken, adminRefreshToken,
                        nextId, users, admins, issued, accepted >>
  IN
  IF email \notin Users \/ ~compare(password, users[email].password) THEN
    Fail("BadRequestException", 200)
  ELSE IF ~users[email].isActive THEN
    Fail("ForbiddenException", 0)
  ELSE IF SessionIdUsed(userRefreshToken, sessionId) THEN
    \* the create violates the unique constraint: the transaction rolls back
    Fail("PrismaClientKnownRequestError", 0)
  ELSE
    /\ \E evicted \in EvictOldest(userRefreshToken, email, USER_MAX_ACTIVE_SESSIONS) :
         userRefreshToken' =
           CreateRow(evicted, nextId.userRefreshToken, refreshToken, email,
                     sessionId, expiresAt, now)
    /\ users' = [users EXCEPT ![email].lastLogin = now]
    /\ nextId' = [nextId EXCEPT !.userRefreshToken = @ + 1]
    /\ issued' = issued \cup { <<"USER", refreshToken>> }
    /\ last' = Response("login", "USER", email, NoToken, NoSession,
                        "ok", refreshToken, sessionId)
    /\ UNCHANGED << now, advances, adminRefreshToken, admins, accepted >>

\* AdminService.login with its statements outside a transaction: when the
\* create fails, the eviction stays.
AdminLoginNoTransaction(email, password, sessionId) ==
  LET refreshToken ==
        JwtSign(email, sessionId, ADMIN_REFRESH_TOKEN_SECRET, 7 * DAY, now)
      Fail(error, ms) ==
        /\ last' = setTimeout(Response("login", "ADMIN", email, NoToken, NoSession,
                                       errorHandler(error), NoToken, NoSession), ms)
        /\ UNCHANGED << now, advances, userRefreshToken, nextId, users,
                        admins, issued, accepted >>
  IN
  IF email \notin Admins \/ ~compare(password, admins[email].password) THEN
    Fail("BadRequestException", 200) /\ UNCHANGED adminRefreshToken
  ELSE IF SessionIdUsed(adminRefreshToken, sessionId) THEN
    /\ Fail("PrismaClientKnownRequestError", 0)
    /\ \E evicted \in EvictOldest(adminRefreshToken, email, ADMIN_MAX_ACTIVE_SESSIONS) :
         adminRefreshToken' = evicted
  ELSE
    /\ \E evicted \in EvictOldest(adminRefreshToken, email, ADMIN_MAX_ACTIVE_SESSIONS) :
         adminRefreshToken' =
           CreateRow(evicted, nextId.adminRefreshToken, refreshToken, email,
                     sessionId, now + 7 * DAY, now)
    /\ nextId' = [nextId EXCEPT !.adminRefreshToken = @ + 1]
    /\ issued' = issued \cup { <<"ADMIN", refreshToken>> }
    /\ last' = Response("login", "ADMIN", email, NoToken, NoSession,
                        "ok", refreshToken, sessionId)
    /\ UNCHANGED << now, advances, userRefreshToken, users, admins, accepted >>

\* AdminService.login(email, password) behind errorHandler.
AdminLogin(email, password, sessionId) ==
  LET refreshToken ==
        JwtSign(email, sessionId, ADMIN_REFRESH_TOKEN_SECRET, 7 * DAY, now)
      expiresAt == now + 7 * DAY
      Fail(error, ms) ==
        /\ last' = setTimeout(Response("login", "ADMIN", email, NoToken, NoSession,
                                       errorHandler(error), NoToken, NoSession), ms)
        /\ UNCHANGED << now, advances, userRefreshToken, adminRefreshToken,
                        nextId, users, admins, issued, accepted >>
  IN
  IF email \notin Admins \/ ~compare(password, admins[email].password) THEN
    Fail("BadRequestException", 200)
  ELSE IF SessionIdUsed(adminRefreshToken, sessionId) THEN
    Fail("PrismaClientKnownRequestError", 0)
  ELSE
    /\ \E evicted \in EvictOldest(adminRefreshToken, email, ADMIN_MAX_ACTIVE_SESSIONS) :
         adminRefreshToken' =
           CreateRow(evicted, nextId.adminRefreshToken, refreshToken, email,
                     sessionId, expiresAt, now)
    /\ nextId' = [nextId EXCEPT !.adminRefreshToken = @ + 1]
    /\ issued' = issued \cup { <<"ADMIN", refreshToken>> }
    /\ last' = Response("login", "ADMIN", email, NoToken, NoSession,
                        "ok", refreshToken, sessionId)
    /\ UNCHANGED << now, advances, userRefreshToken, users, admins, accepted >>

\* !x of JavaScript for x a Promise: a Promise is an object, objects are
\* truthy, so !x is false whatever the Promise resolves to.
NotOfPromise(resolvesTo) == FALSE

\* prisma adminRefreshToken.count({where: {adminId, revoked: false,
\* expiresAt: {gt: new Date()}}})
CountActiveUnexpired(rows, ownerId, t) ==
  Cardinality({ r \in ActiveOf(rows, ownerId) : r.expiresAt > t })

\* The earlier AdminService.login(email, password) behind errorHandler: the
\* result of compare is negated without being awaited, the count leaves
\* expired rows out, the refresh token is signed from {id} alone.
AdminLoginEarlier(email, password, sessionId) ==
  LET refreshToken ==
        JwtSign(email, NoSession, ADMIN_REFRESH_TOKEN_SECRET, 7 * DAY, now)
      expiresAt == now + 7 * DAY
      evictedRows ==
        IF CountActiveUnexpired(adminRefreshToken, email, now)
             >= ADMIN_MAX_ACTIVE_SESSIONS
           /\ OldestActive(adminRefreshToken, email) # {}
        THEN { RevokeById(adminRefreshToken, oldestSession.id) :
                 oldestSession \in OldestActive(adminRefreshToken, email) }
        ELSE { adminRefreshToken }
      Fail(error, ms) ==
        /\ last' = setTimeout(Response("login", "ADMIN", email, NoToken, NoSession,
                                       errorHandler(error), NoToken, NoSession), ms)
        /\ UNCHANGED << now, advances, userRefreshToken, adminRefreshToken,
                        nextId, users, admins, issued, accepted >>
  IN
  IF email \notin Admins
     \/ NotOfPromise(compare(password, admins[email].password)) THEN
    Fail("BadRequestException", 200)
  ELSE IF SessionIdUsed(adminRefreshToken, sessionId) THEN
    Fail("PrismaClientKnownRequestError", 0)
  ELSE
    /\ \E evicted \in evictedRows :
         adminRefreshToken' =
           CreateRow(evicted, nextId.adminRefreshToken, refreshToken, email,
                     sessionId, expiresAt, now)
    /\ nextId' = [nextId EXCEPT !.adminRefreshToken = @ + 1]
    /\ issued' = issued \cup { <<"ADMIN", refreshToken>> }
    /\ last' = Response("login", "ADMIN", email, NoToken, NoSession,
                        "ok", refreshToken, sessionId)
    /\ UNCHANGED << now, advances, userRefreshToken, users, admins, accepted >>

(* --------------------------- user management -------------------------- *)
\* ManageService.updateUser(userId, {isActive}) behind errorHandler, called
\* by an administrator; userId = 0 is an id no user has.
updateUser(userId, isActive) ==
  IF userId \notin Users THEN
    /\ last' = Response("updateUser", "ADMIN", userId, NoToken, NoSession,
                        errorHandler("NotFoundException"), NoToken, NoSession)
    /\ UNCHANGED << now, advances, userRefreshToken, adminRefreshToken,
                    nextId, users, admins, issued, accepted >>
  ELSE
    /\ users' = [users EXCEPT ![userId].isActive = isActive]
    /\ last' = Response("updateUser", "ADMIN", userId, NoToken, NoSession,
                        "ok", NoToken, NoSession)
    /\ UNCHANGED << now, advances, userRefreshToken, adminRefreshToken,
                    nextId, admins, issued, accepted >>

(* ------------------------------ refresh ------------------------------- *)
\* A refresh that looks the user up and refuses one who is not active.
RefreshResultsActiveOnly(config, refreshToken, sessionId, rows, id, t) ==
  LET verdict == JwtVerify(refreshToken, config.refreshSecret, t)
      newRefreshToken ==
        JwtSign(refreshToken.id, NoSession, config.refreshSecret,
                config.refreshDuration * DAY, t)
      Fail(error, newRows) ==
        [ outcome |-> errorHandler(error), rows |-> newRows, newToken |-> NoToken ]
  IN
  IF refreshToken = NoToken THEN { Fail("UnauthorizedException", rows) }
  ELSE IF verdict # "ok" THEN { Fail(verdict, rows) }
  ELSE IF FindRefreshToken(rows, refreshToken) = {} THEN
    { Fail("UnauthorizedException", rows) }
  ELSE IF config.entity = "USER" /\ ~users[refreshToken.id].isActive THEN
    { Fail("ForbiddenException", rows) }
  ELSE
    { IF storedToken.expiresAt < t \/ storedToken.revoked THEN
        Fail("UnauthorizedException", rows)
      ELSE IF SessionIdUsed(rows, sessionId) THEN
        Fail("PrismaClientKnownRequestError", RevokeById(rows, storedToken.id))
      ELSE
        [ outcome |-> "ok",
          rows |-> CreateRow(RevokeById(rows, storedToken.id), id,
                             newRefreshToken, refreshToken.id, sessionId,
                             t + config.refreshDuration * DAY, t),
          newToken |-> newRefreshToken ]
      : storedToken \in FindRefreshToken(rows, refreshToken) }

\* handleTokenRefresh(req, res, config) behind errorHandler, on the table
\* contents rows at second t: refreshToken is the refreshToken cookie,
\* sessionId the value crypto.randomUUID() returns, id the next autoincrement
\* value.  The possible results: the outcome, the table contents left behind,
\* the new refreshToken cookie.
RefreshResults(config, refreshToken, sessionId, rows, id, t) ==
  LET verdict == JwtVerify(refreshToken, config.refreshSecret, t)
      newRefreshToken ==
        JwtSign(refreshToken.id, NoSession, config.refreshSecret,
                config.refreshDuration * DAY, t)
      Fail(error, newRows) ==
        [ outcome |-> errorHandler(error), rows |-> newRows, newToken |-> NoToken ]
  IN
  IF refreshToken = NoToken THEN { Fail("UnauthorizedException", rows) }
  ELSE IF verdict # "ok" THEN { Fail(verdict, rows) }
  ELSE IF FindRefreshToken(rows, refreshToken) = {} THEN
    { Fail("UnauthorizedException", rows) }
  ELSE
    { IF storedToken.expiresAt < t \/ storedToken.revoked THEN
        Fail("UnauthorizedException", rows)
      ELSE IF SessionIdUsed(rows, sessionId) THEN
        \* the old row is already revoked when the create fails
        Fail("PrismaClientKnownRequestError", RevokeById(rows, storedToken.id))
      ELSE
        [ outcome |-> "ok",
          rows |-> CreateRow(RevokeById(rows, storedToken.id), id,
                             newRefreshToken, refreshToken.id, sessionId,
                             t + config.refreshDuration * DAY, t),
          newToken |-> newRefreshToken ]
      : storedToken \in FindRefreshToken(rows, refreshToken) }

\* A refresh endpoint that stores the new row and leaves the presented one
\* as it is.
handleTokenRefreshKeepOld(config, refreshToken, sessionId) ==
  \E result \in RefreshResults(config, refreshToken, sessionId,
                               Table(config.table), nextId[config.table], now) :
    /\ SetTable(config.table,
                Table(config.table) \cup
                  { r \in result.rows :
                      \A q \in Table(config.table) : q.id # r.id })
    /\ last' = Response("refresh", config.entity, 0, refreshToken, NoSession,
                        result.outcome, result.newToken, NoSession)
    /\ IF result.outcome = "ok"
       THEN /\ nextId' = [nextId EXCEPT ![config.table] = @ + 1]
            /\ issued' = issued \cup { <<config.entity, result.newToken>> }
            /\ accepted' = accepted \cup { <<config.entity, refreshToken>> }
       ELSE UNCHANGED << nextId, issued, accepted >>
    /\ UNCHANGED << now, advances, users, admins >>

\* The refresh endpoint (refreshToken / adminRefreshToken controllers).
handleTokenRefresh(config, refreshToken, sessionId) ==
  \E result \in RefreshResults(config, refreshToken, sessionId,
                               Table(config.table), nextId[config.table], now) :
    /\ SetTable(config.table, result.rows)
    /\ last' = Response("refresh", config.entity, 0, refreshToken, NoSession,
                        result.outcome, result.newToken, NoSession)
    /\ IF result.outcome = "ok"
       THEN /\ nextId' = [nextId EXCEPT ![config.table] = @ + 1]
            /\ issued' = issued \cup { <<config.entity, result.newToken>> }
            /\ accepted' = accepted \cup { <<config.entity, refreshToken>> }
       ELSE UNCHANGED << nextId, issued, accepted >>
    /\ UNCHANGED << now, advances, users, admins >>

(* --------------------------- authentication --------------------------- *)
\* config.findEntity(id): whether the class has a principal with this id.
findEntity(config, id) ==
  IF config.entity = "USER" THEN id \in DOMAIN users ELSE id \in DOMAIN admins

\* A middleware that also looks the principal's sessions up and refuses a
\* principal who has no non-revoked one.
AuthResponseSessionBound(config, token) ==
  LET request ==
        Response("authenticate", config.entity, 0, token, NoSession, "ok",
                 NoToken, NoSession)
      verdict == JwtVerify(token, config.jwtSecret, now)
  IN
  IF token = NoToken THEN
    errorMiddleware(request,
      UnauthorizedException("Missing access token",
                            ErrorCodeMember("UNAUTHORIZED")))
  ELSE IF verdict = "TokenExpiredError" THEN
    errorMiddleware(request,
      UnauthorizedException("Token scaduto, utilizzare l'endpoint di refresh",
                            ErrorCodeMember("TOKEN_EXPIRED")))
  ELSE IF verdict # "ok" THEN
    errorMiddleware(request,
      UnauthorizedException("Invalid access token",
                            ErrorCodeMember("UNAUTHORIZED")))
  ELSE IF ~findEntity(config, token.id) THEN
    errorMiddleware(request,
      UnauthorizedException(config.entity \o " not found",
                            ErrorCodeMember("UNAUTHORIZED")))
  ELSE IF ActiveOf(Table(config.table), token.id) = {} THEN
    errorMiddleware(request,
      UnauthorizedException("Session revoked",
                            ErrorCodeMember("UNAUTHORIZED")))
  ELSE [request EXCEPT !.principal = token.id]

\* The answer of createAuthMiddleware(config) to a request whose
\* Authorization header carries token (NoToken: no header, or not a Bearer
\* one).  On success the principal is attached to the request.
AuthResponse(config, token) ==
  LET request ==
        Response("authenticate", config.entity, 0, token, NoSession, "ok",
                 NoToken, NoSession)
      verdict == JwtVerify(token, config.jwtSecret, now)
  IN
  IF token = NoToken THEN
    errorMiddleware(request,
      UnauthorizedException("Missing access token",
                            ErrorCodeMember("UNAUTHORIZED")))
  ELSE IF verdict = "TokenExpiredError" THEN
    errorMiddleware(request,
      UnauthorizedException("Token scaduto, utilizzare l'endpoint di refresh",
                            ErrorCodeMember("TOKEN_EXPIRED")))
  ELSE IF verdict # "ok" THEN
    errorMiddleware(request,
      UnauthorizedException("Invalid access token",
                            ErrorCodeMember("UNAUTHORIZED")))
  ELSE IF ~findEntity(config, token.id) THEN
    errorMiddleware(request,
      UnauthorizedException(config.entity \o " not found",
                            ErrorCodeMember("UNAUTHORIZED")))
  ELSE [request EXCEPT !.principal = token.id]

\* The middleware with the refresh inside the access check: an expired
\* access token is answered by rotating a refresh token of its principal.
createAuthMiddlewareAutoRefresh(config, token) ==
  IF /\ token # NoToken
     /\ JwtVerify(token, config.jwtSecret, now) = "TokenExpiredError"
     /\ \E it \in issued : it[1] = config.entity /\ it[2].id = token.id
  THEN \E it \in issued :
         /\ it[1] = config.entity
         /\ it[2].id = token.id
         /\ handleTokenRefresh(config, it[2], FreshUUID(config.table))
  ELSE
    /\ last' = AuthResponse(config, token)
    /\ UNCHANGED << now, advances, userRefreshToken, adminRefreshToken, nextId,
                    users, admins, issued, accepted >>

\* createAuthMiddleware(config) serving a request: it reads the principal
\* store and writes nothing.
createAuthMiddleware(config, token) ==
  /\ last' = AuthResponse(config, token)
  /\ UNCHANGED << now, advances, userRefreshToken, adminRefreshToken, nextId,
                  users, admins, issued, accepted >>

\* A logout that answers ok without looking at the count of updated rows.
LogoutResultNoCount(config, principal, sessionId, rows) ==
  [ outcome |-> IF sessionId = NoSession THEN errorHandler("BadRequestException")
                ELSE "ok",
    rows |-> IF sessionId = NoSession THEN rows
             ELSE RevokeBySession(rows, principal, sessionId) ]

\* The outcome of a logout on the table contents rows, and the table
\* contents it leaves behind.
LogoutResult(config, principal, sessionId, rows) ==
  LET count == Cardinality({ r \in rows : /\ r.ownerId = principal
                                          /\ r.sessionId = sessionId
                                          /\ ~r.revoked })
  IN
  [ outcome |-> IF sessionId = NoSession THEN errorHandler("BadRequestException")
                ELSE IF count = 0 THEN errorHandler("NotFoundException")
                ELSE "ok",
    rows |-> IF sessionId = NoSession THEN rows
             ELSE RevokeBySession(rows, principal, sessionId) ]

(* ------------------------------- logout ------------------------------- *)
\* userLogout / adminLogout behind the auth middleware and errorHandler:
\* principal is the authenticated req.user.id / req.admin.id, sessionId the
\* sessionId cookie.
Logout(config, principal, sessionId) ==
  LET result == LogoutResult(config, principal, sessionId, Table(config.table))
  IN
  /\ SetTable(config.table, result.rows)
  /\ last' = Response("logout", config.entity, principal, NoToken, sessionId,
                      result.outcome, NoToken, NoSession)
  /\ UNCHANGED << now, advances, nextId, users, admins, issued, accepted >>

(* ------------------------------ password ------------------------------ *)
\* updatePassword without the updateMany on the user's sessions.
UpdatePasswordKeepSessions(userId, oldPassword, newPassword) ==
  IF ~compare(oldPassword, users[userId].password) THEN
    /\ last' = Response("updatePassword", "USER", userId, NoToken, NoSession,
                        errorHandler("UnauthorizedException"), NoToken, NoSession)
    /\ UNCHANGED << now, advances, userRefreshToken, adminRefreshToken,
                    nextId, users, admins, issued, accepted >>
  ELSE
    /\ users' = [users EXCEPT ![userId].password = hashSync(newPassword)]
    /\ last' = Response("updatePassword", "USER", userId, NoToken, NoSession,
                        "ok", NoToken, NoSession)
    /\ UNCHANGED << now, advances, userRefreshToken, adminRefreshToken, nextId,
                    admins, issued, accepted >>

\* PasswordService.updatePassword(req, oldPassword, newPassword) for the
\* authenticated user, behind errorHandler.
UpdatePassword(userId, oldPassword, newPassword) ==
  IF ~compare(oldPassword, users[userId].password) THEN
    /\ last' = Response("updatePassword", "USER", userId, NoToken, NoSession,
                        errorHandler("UnauthorizedException"), NoToken, NoSession)
    /\ UNCHANGED << now, advances, userRefreshToken, adminRefreshToken,
                    nextId, users, admins, issued, accepted >>
  ELSE
    /\ users' = [users EXCEPT ![userId].password = hashSync(newPassword)]
    /\ userRefreshToken' = RevokeAllOf(userRefreshToken, {userId})
    /\ last' = Response("updatePassword", "USER", userId, NoToken, NoSession,
                        "ok", NoToken, NoSession)
    /\ UNCHANGED << now, advances, adminRefreshToken, nextId, admins, issued,
                    accepted >>

\* PasswordService.forgotPassword(email) behind errorHandler; mailSent tells
\* whether sendEmail succeeds.
ForgotPassword(email, mailSent) ==
  LET recentRequest ==
        /\ users[email].resetTokenExpiry # -1
        /\ users[email].resetTokenExpiry > now - 5 * 60
      Answer(outcome) ==
        last' = Response("forgotPassword", "USER", email, NoToken, NoSession,
                         outcome, NoToken, NoSession)
  IN
  /\ IF email \notin Users \/ recentRequest THEN
       /\ Answer("ok")
       /\ UNCHANGED users
     ELSE IF mailSent THEN
       /\ users' = [users EXCEPT ![email].resetToken = RandomBytes(email, now),
                                 ![email].resetTokenExpiry = now + 3600]
       /\ Answer("ok")
     ELSE
       /\ users' = [users EXCEPT ![email].resetToken = NoReset,
                                 ![email].resetTokenExpiry = -1]
       /\ Answer(errorHandler("BadRequestException"))
  /\ UNCHANGED << now, advances, userRefreshToken, adminRefreshToken, nextId,
                  admins, issued, accepted >>

\* setPassword with an update that leaves resetToken and resetTokenExpiry
\* as they are.
SetPasswordKeepToken(token, newPassword) ==
  LET found == { u \in Users : /\ users[u].resetToken = token
                               /\ users[u].resetTokenExpiry > now }
      Answer(principal, outcome) ==
        last' = Response("setPassword", "USER", principal, NoToken, NoSession,
                         outcome, NoToken, NoSession)
  IN
  IF token = NoReset \/ found = {} THEN
    /\ Answer(0, errorHandler("BadRequestException"))
    /\ UNCHANGED << now, advances, userRefreshToken, adminRefreshToken,
                    nextId, users, admins, issued, accepted >>
  ELSE
    \E user \in found :
      /\ users' = [users EXCEPT ![user].password = hashSync(newPassword)]
      /\ userRefreshToken' = RevokeAllOf(userRefreshToken, {user})
      /\ Answer(user, "ok")
      /\ UNCHANGED << now, advances, adminRefreshToken, nextId, admins, issued,
                      accepted >>

\* PasswordService.setPassword(token, newPassword) behind errorHandler.
SetPassword(token, newPassword) ==
  LET found == { u \in Users : /\ users[u].resetToken = token
                               /\ users[u].resetTokenExpiry > now }
      Answer(principal, outcome) ==
        last' = Response("setPassword", "USER", principal, NoToken, NoSession,
                         outcome, NoToken, NoSession)
  IN
  IF token = NoReset \/ found = {} THEN
    /\ Answer(0, errorHandler("BadRequestException"))
    /\ UNCHANGED << now, advances, userRefreshToken, adminRefreshToken,
                    nextId, users, admins, issued, accepted >>
  ELSE
    \E user \in found :
      /\ users' = [users EXCEPT ![user].password = hashSync(newPassword),
                                ![user].resetToken = NoReset,
                                ![user].resetTokenExpiry = -1]
      /\ userRefreshToken' = RevokeAllOf(userRefreshToken, {user})
      /\ Answer(user, "ok")
      /\ UNCHANGED << now, advances, adminRefreshToken, nextId, admins, issued,
                      accepted >>

(* ------------------------------ cleanup ------------------------------- *)
\* SessionCleanupService.cleanupInactiveSessions: revokes the sessions of
\* the users whose lastLogin is more than 30 days old.
cleanupInactiveSessions(rows) ==
  RevokeAllOf(rows, { u \in Users : /\ users[u].lastLogin >= 0
                                     /\ users[u].lastLogin < now - 30 * DAY })

\* A cleanup that also deletes the rows that expire within a day.
cleanupExpiringTokens(rows) == { r \in rows : ~(r.expiresAt < now + DAY) }

\* SessionCleanupService.cleanupExpiredTokens: deletes the expired rows.
cleanupExpiredTokens(rows) == { r \in rows : ~(r.expiresAt < now) }

\* SessionCleanupService.runCleanup
RunCleanup ==
  /\ userRefreshToken' =
       cleanupExpiredTokens(cleanupInactiveSessions(userRefreshToken))
  /\ last' = Response("runCleanup", "USER", 0, NoToken, NoSession, "ok",
                      NoToken, NoSession)
  /\ UNCHANGED << now, advances, adminRefreshToken, nextId, users, admins,
                  issued, accepted >>

(* ------------------------- the sequential system ---------------------- *)
\* The response is sent; the next request can be served.
Respond ==
  /\ last # Idle
  /\ last' = Idle
  /\ UNCHANGED << now, advances, userRefreshToken, adminRefreshToken, nextId,
                  users, admins, issued, accepted >>

\* The number of rows created so far, in both tables.
Created == (nextId.userRefreshToken - 1) + (nextId.adminRefreshToken - 1)

Jumps == { 1, 30 * DAY }

\* The passwords users choose when they change or reset one.
NewPasswords == { "Passw0rdA" }

AdvanceStep == \E d \in Jumps : Advance(d)

UserLoginStep ==
  \E email \in Users \cup {0}, password \in Passwords :
    UserLogin(email, password, FreshUUID("userRefreshToken"))

AdminLoginStep ==
  \E email \in Admins \cup {0}, password \in Passwords :
    AdminLogin(email, password, FreshUUID("adminRefreshToken"))

PresentableTokens == { it[2] : it \in issued } \cup { ForgedToken, NoToken }

RefreshStep ==
  \E config \in Configs, refreshToken \in PresentableTokens :
    handleTokenRefresh(config, refreshToken, FreshUUID(config.table))

\* The sessionId cookie of a logout: one the class has handed out, or none.
SessionCookies(config) ==
  { r.sessionId : r \in Table(config.table) } \cup { NoSession }

LogoutStep ==
  \/ \E userId \in Users, sessionId \in SessionCookies(userAuthConfig) :
       Logout(userAuthConfig, userId, sessionId)
  \/ \E adminId \in Admins, sessionId \in SessionCookies(adminAuthConfig) :
       Logout(adminAuthConfig, adminId, sessionId)

UpdatePasswordStep ==
  \E userId \in Users, oldPassword \in Passwords, newPassword \in NewPasswords :
    UpdatePassword(userId, oldPassword, newPassword)

\* The number of users with a reset token outstanding.
PendingResets == Cardinality({ u \in Users : users[u].resetToken # NoReset })

ForgotPasswordStep ==
  \E email \in Users \cup {0}, mailSent \in BOOLEAN :
    ForgotPassword(email, mailSent)

\* The token of a reset link that was mailed, a token nobody was sent, or none.
SetPasswordStep ==
  \E token \in { users[u].resetToken : u \in Users } \cup { RandomBytes(0, 0) },
     newPassword \in NewPasswords :
    SetPassword(token, newPassword)

\* Requests are served one at a time, at most MaxRows rows are created, the
\* clock is advanced at most MaxAdvance times and at most MaxResets reset
\* tokens are outstanding.
Next ==
  \/ advances < MaxAdvance /\ last = Idle /\ AdvanceStep /\ UNCHANGED << tx, loggedOut, scheduler, resets >>
  \/ Created < MaxRows /\ last = Idle /\ UserLoginStep /\ UNCHANGED << tx, loggedOut, scheduler, resets >>
  \/ Created < MaxRows /\ last = Idle /\ AdminLoginStep /\ UNCHANGED << tx, loggedOut, scheduler, resets >>
  \/ Created < MaxRows /\ last = Idle /\ RefreshStep /\ UNCHANGED << tx, loggedOut, scheduler, resets >>
  \/ last = Idle /\ LogoutStep /\ UNCHANGED << tx, loggedOut, scheduler, resets >>
  \/ last = Idle /\ UpdatePasswordStep /\ UNCHANGED << tx, loggedOut, scheduler, resets >>
  \/ PendingResets < MaxResets /\ last = Idle /\ ForgotPasswordStep /\ UNCHANGED << tx, loggedOut, scheduler, resets >>
  \/ last = Idle /\ SetPasswordStep /\ UNCHANGED << tx, loggedOut, scheduler, resets >>
  \/ last = Idle /\ RunCleanup /\ UNCHANGED << tx, loggedOut, scheduler, resets >>
  \/ Respond /\ UNCHANGED << tx, loggedOut, scheduler, resets >>

Spec == Init /\ [][Next]_vars

\* Logins only: within the same second, a second apart, or after the
\* sessions of the earlier ones have expired.
NextLogin ==
  \/ advances < MaxLoginAdvance /\ last = Idle /\ AdvanceStep /\ UNCHANGED << tx, loggedOut, scheduler, resets >>
  \/ Created < MaxLogins /\ last = Idle /\ UserLoginStep /\ UNCHANGED << tx, loggedOut, scheduler, resets >>
  \/ Created < MaxLogins /\ last = Idle /\ AdminLoginStep /\ UNCHANGED << tx, loggedOut, scheduler, resets >>
  \/ Respond /\ UNCHANGED << tx, loggedOut, scheduler, resets >>

SpecLogin == Init /\ [][NextLogin]_vars

(* ----------------------- failing store statements --------------------- *)
\* The values crypto.randomUUID() can return for a new session of a table:
\* a value never generated before, or the sessionId of a stored row, in
\* which case the create violates the unique constraint and fails.
PossibleUUIDs(table) ==
  { FreshUUID(table) } \cup { r.sessionId : r \in Table(table) }

UsedUUIDs(table) == { r.sessionId : r \in Table(table) }

UserLoginFaultStep ==
  \E email \in Users, password \in Passwords,
     sessionId \in PossibleUUIDs("userRefreshToken") :
    UserLogin(email, password, sessionId)

AdminLoginFaultStep ==
  \E email \in Admins, password \in Passwords,
     sessionId \in PossibleUUIDs("adminRefreshToken") :
    AdminLogin(email, password, sessionId)

RefreshFaultStep ==
  \E it \in issued :
    handleTokenRefresh(ConfigOf(it[1]), it[2], FreshUUID(ConfigOf(it[1]).table))

RefreshCollisionStep ==
  \E it \in issued :
    \E sessionId \in UsedUUIDs(ConfigOf(it[1]).table) :
      handleTokenRefresh(ConfigOf(it[1]), it[2], sessionId)

\* Logins and refreshes served one at a time, whose create statement can
\* fail; at most MaxFaultRows rows are created.
NextFault ==
  \/ Created < MaxFaultRows /\ last = Idle /\ UserLoginFaultStep /\ UNCHANGED << tx, loggedOut, scheduler, resets >>
  \/ Created < MaxFaultRows /\ last = Idle /\ AdminLoginFaultStep /\ UNCHANGED << tx, loggedOut, scheduler, resets >>
  \/ Created < MaxFaultRows /\ last = Idle /\ RefreshFaultStep /\ UNCHANGED << tx, loggedOut, scheduler, resets >>
  \/ last = Idle /\ RefreshCollisionStep /\ UNCHANGED << tx, loggedOut, scheduler, resets >>
  \/ Respond /\ UNCHANGED << tx, loggedOut, scheduler, resets >>

SpecFault == Init /\ [][NextFault]_vars

(* ------------------------------- logouts ------------------------------ *)
\* A logout, and the record of it when it succeeded.
LogoutRecorded(config, principal, sessionId) ==
  /\ Logout(config, principal, sessionId)
  /\ loggedOut' =
       IF last'.outcome = "ok"
       THEN loggedOut \cup { << config.entity, principal, sessionId >> }
       ELSE loggedOut

\* The sessionId cookie of a logout: a session id of either class, the
\* caller's own or somebody else's, or none.
AnySessionCookie ==
  { r.sessionId : r \in userRefreshToken \cup adminRefreshToken } \cup { NoSession }

LogoutAnyStep ==
  \/ \E userId \in Users, sessionId \in AnySessionCookie :
       LogoutRecorded(userAuthConfig, userId, sessionId)
  \/ \E adminId \in Admins, sessionId \in AnySessionCookie :
       LogoutRecorded(adminAuthConfig, adminId, sessionId)

\* Logins, refreshes and logouts of every principal with every session id.
NextLogout ==
  \/ Created < MaxLogoutRows /\ last = Idle /\ UserLoginStep /\ UNCHANGED << tx, loggedOut, scheduler, resets >>
  \/ Created < MaxLogoutRows /\ last = Idle /\ AdminLoginStep /\ UNCHANGED << tx, loggedOut, scheduler, resets >>
  \/ Created < MaxLogoutRows /\ last = Idle /\ RefreshStep /\ UNCHANGED << tx, loggedOut, scheduler, resets >>
  \/ last = Idle /\ LogoutAnyStep /\ UNCHANGED << tx, scheduler, resets >>
  \/ Respond /\ UNCHANGED << tx, loggedOut, scheduler, resets >>

SpecLogout == Init /\ [][NextLogout]_vars

(* ------------------------- access-token checks ------------------------ *)
\* The access token a login or a refresh signs together with a refresh
\* token: jwt.sign({id, ...}, config.jwtSecret, {expiresIn: '15m'}).
AccessTokenOf(entity, refreshToken) ==
  JwtSign(refreshToken.id, NoSession, ConfigOf(entity).jwtSecret, 15 * 60,
          refreshToken.iat)

\* The access tokens handed out so far.
AccessTokens == { AccessTokenOf(it[1], it[2]) : it \in issued }

\* An access token of the class signed at second 0 whose id no principal of
\* the store has: the account is gone.
OrphanToken(config) == JwtSign(0, NoSession, config.jwtSecret, 15 * 60, 0)

\* What a request can carry as its bearer token: an access token or a
\* refresh token of either class, a token of an account that is gone, a
\* string no secret of the server signed, or nothing.
BearerTokens ==
  AccessTokens \cup { it[2] : it \in issued }
    \cup { OrphanToken(config) : config \in Configs }
    \cup { ForgedToken, NoToken }

AuthJumps == { 1, 15 * 60 }

AuthAdvanceStep == \E d \in AuthJumps : Advance(d)

AuthenticateStep ==
  \E config \in Configs, token \in BearerTokens : createAuthMiddleware(config, token)

\* A refresh whose refreshToken cookie holds an access token.
RefreshWithAccessTokenStep ==
  \E config \in Configs, token \in AccessTokens :
    handleTokenRefresh(config, token, FreshUUID(config.table))

\* Logins and refreshes hand out tokens, the clock passes the lifetime of an
\* access token, and requests present any token to either class's routes.
NextAuth ==
  \/ advances < MaxAuthAdvance /\ last = Idle /\ AuthAdvanceStep /\ UNCHANGED << tx, loggedOut, scheduler, resets >>
  \/ Created < MaxAuthRows /\ last = Idle /\ UserLoginStep /\ UNCHANGED << tx, loggedOut, scheduler, resets >>
  \/ Created < MaxAuthRows /\ last = Idle /\ AdminLoginStep /\ UNCHANGED << tx, loggedOut, scheduler, resets >>
  \/ Created < MaxAuthRows /\ last = Idle /\ RefreshStep /\ UNCHANGED << tx, loggedOut, scheduler, resets >>
  \/ last = Idle /\ AuthenticateStep /\ UNCHANGED << tx, loggedOut, scheduler, resets >>
  \/ last = Idle /\ RefreshWithAccessTokenStep /\ UNCHANGED << tx, loggedOut, scheduler, resets >>
  \/ Respond /\ UNCHANGED << tx, loggedOut, scheduler, resets >>

SpecAuth == Init /\ [][NextAuth]_vars

(* ------------------------- credentials of login ----------------------- *)
AdminLoginEarlierStep ==
  \E email \in Admins \cup {0}, password \in Passwords :
    AdminLoginEarlier(email, password, FreshUUID("adminRefreshToken"))

updateUserStep ==
  \E userId \in Users \cup {0}, isActive \in BOOLEAN :
    updateUser(userId, isActive)

\* Logins of existing and unknown principals with right and wrong passwords,
\* through every revision of the login services, while an administrator
\* activates and deactivates users.
NextCred ==
  \/ Created < MaxCredRows /\ last = Idle /\ UserLoginStep /\ UNCHANGED << tx, loggedOut, scheduler, resets >>
  \/ Created < MaxCredRows /\ last = Idle /\ AdminLoginStep /\ UNCHANGED << tx, loggedOut, scheduler, resets >>
  \/ Created < MaxCredRows /\ last = Idle /\ AdminLoginEarlierStep /\ UNCHANGED << tx, loggedOut, scheduler, resets >>
  \/ last = Idle /\ updateUserStep /\ UNCHANGED << tx, loggedOut, scheduler, resets >>
  \/ Respond /\ UNCHANGED << tx, loggedOut, scheduler, resets >>

SpecCred == Init /\ [][NextCred]_vars

(* -------------------------- overlapping requests ---------------------- *)
\* The statements of a login and of a refresh, executed one at a time by
\* requests that overlap.  The login's statements run in one transaction at
\* PostgreSQL's default isolation level, READ COMMITTED: a read sees what is
\* committed when it executes, an update locks its row until the commit, and
\* the writes become visible at the commit.  The refresh's statements are
\* not in a transaction: each one is committed by itself.

InFlight(p) == tx[p].pc \notin { "idle", "done" }

\* crypto.randomUUID() of a request in flight.
ProcUUID(p) == <<p, Created>>

\* UserService.login / AdminService.login up to the transaction: the
\* credentials are right, the sessionId is generated, the token is signed.
LoginStart(p, entity, email) ==
  /\ tx[p].pc = "idle"
  /\ tx' = [tx EXCEPT ![p] =
       [ IdleTx EXCEPT
           !.pc = IF entity = "USER" THEN "touch" ELSE "count",
           !.op = "login", !.entity = entity, !.principal = email,
           !.sessionId = ProcUUID(p),
           !.newToken = JwtSign(email, ProcUUID(p),
                                ConfigOf(entity).refreshSecret,
                                ConfigOf(entity).refreshDuration * DAY, now),
           !.overlap = \E q \in Procs \ {p} : InFlight(q) ]]
  /\ UNCHANGED << now, advances, userRefreshToken, adminRefreshToken, nextId,
                  users, admins, issued, accepted, last >>

\* The failure delay slept inside the transaction, after the update of the
\* user's row: the lock is held while the call waits.
HoldsUserLockInDelay(p, email) ==
  /\ tx[p].op = "login"
  /\ tx[p].entity = "USER"
  /\ tx[p].principal = email
  /\ tx[p].pc \in { "delay", "count", "find", "revoke", "create", "commit" }

\* The transaction of p holds the lock of the row of user email.
HoldsUserLock(p, email) ==
  /\ tx[p].op = "login"
  /\ tx[p].entity = "USER"
  /\ tx[p].principal = email
  /\ tx[p].pc \in { "count", "find", "revoke", "create", "commit" }

\* The transaction of p holds the lock of row id of the entity's table.
HoldsRowLock(p, entity, id) ==
  /\ tx[p].op = "login"
  /\ tx[p].entity = entity
  /\ tx[p].oldest = id
  /\ tx[p].pc \in { "create", "commit" }

\* tx.user.update({where: {id}, data: {lastLogin}}): waits for the row lock.
LoginTouchUser(p) ==
  /\ tx[p].pc = "touch"
  /\ \A q \in Procs \ {p} : ~HoldsUserLock(q, tx[p].principal)
  /\ tx' = [tx EXCEPT ![p].pc = "count"]
  /\ UNCHANGED << now, advances, userRefreshToken, adminRefreshToken, nextId,
                  users, admins, issued, accepted, last >>

\* tx.<table>.count({where: {ownerId, revoked: false}})
LoginCount(p) ==
  /\ tx[p].pc = "count"
  /\ LET activeSessions ==
           CountActive(Table(ConfigOf(tx[p].entity).table), tx[p].principal)
     IN tx' = [tx EXCEPT ![p].count = activeSessions,
                         ![p].pc = IF activeSessions >= Cap(tx[p].entity)
                                   THEN "find" ELSE "create"]
  /\ UNCHANGED << now, advances, userRefreshToken, adminRefreshToken, nextId,
                  users, admins, issued, accepted, last >>

\* tx.<table>.findFirst({where: {ownerId, revoked: false}, orderBy: createdAt})
LoginFindOldest(p) ==
  /\ tx[p].pc = "find"
  /\ LET candidates ==
           OldestActive(Table(ConfigOf(tx[p].entity).table), tx[p].principal)
     IN IF candidates = {}
        THEN tx' = [tx EXCEPT ![p].pc = "create"]
        ELSE \E oldestSession \in candidates :
               tx' = [tx EXCEPT ![p].oldest = oldestSession.id,
                                ![p].pc = "revoke"]
  /\ UNCHANGED << now, advances, userRefreshToken, adminRefreshToken, nextId,
                  users, admins, issued, accepted, last >>

\* tx.<table>.update({where: {id: oldestSession.id}, data: {revoked: true}}):
\* waits for the row lock; the write is visible at the commit.
LoginRevoke(p) ==
  /\ tx[p].pc = "revoke"
  /\ \A q \in Procs \ {p} : ~HoldsRowLock(q, tx[p].entity, tx[p].oldest)
  /\ tx' = [tx EXCEPT ![p].pc = "create"]
  /\ UNCHANGED << now, advances, userRefreshToken, adminRefreshToken, nextId,
                  users, admins, issued, accepted, last >>

\* tx.<table>.create(...): the sequence hands out the id at once, the row is
\* visible at the commit.
LoginCreate(p) ==
  /\ tx[p].pc = "create"
  /\ tx' = [tx EXCEPT ![p].stored = nextId[ConfigOf(tx[p].entity).table],
                      ![p].pc = "commit"]
  /\ nextId' = [nextId EXCEPT ![ConfigOf(tx[p].entity).table] = @ + 1]
  /\ UNCHANGED << now, advances, userRefreshToken, adminRefreshToken,
                  users, admins, issued, accepted, last >>

\* The commit: the lastLogin, the revocation and the new row become visible,
\* the locks are released, the response is sent.
LoginCommit(p) ==
  /\ tx[p].pc = "commit"
  /\ LET config == ConfigOf(tx[p].entity)
         rows == Table(config.table)
         revoked == IF tx[p].oldest # 0 THEN RevokeById(rows, tx[p].oldest)
                    ELSE rows
     IN SetTable(config.table,
                 CreateRow(revoked, tx[p].stored, tx[p].newToken,
                           tx[p].principal, tx[p].sessionId,
                           now + config.refreshDuration * DAY, now))
  /\ users' = IF tx[p].entity = "USER"
              THEN [users EXCEPT ![tx[p].principal].lastLogin = now]
              ELSE users
  /\ issued' = issued \cup { <<tx[p].entity, tx[p].newToken>> }
  /\ tx' = [tx EXCEPT ![p].pc = "done", ![p].outcome = "ok"]
  /\ UNCHANGED << now, advances, nextId, admins, accepted, last >>

\* handleTokenRefresh up to the lookup: the cookie is there and jwt.verify
\* accepts it.
RefreshStart(p, config, refreshToken) ==
  /\ tx[p].pc = "idle"
  /\ refreshToken # NoToken
  /\ JwtVerify(refreshToken, config.refreshSecret, now) = "ok"
  /\ tx' = [tx EXCEPT ![p] =
       [ IdleTx EXCEPT
           !.pc = "rfind", !.op = "refresh", !.entity = config.entity,
           !.principal = refreshToken.id, !.token = refreshToken,
           !.overlap = \E q \in Procs \ {p} : InFlight(q) ]]
  /\ UNCHANGED << now, advances, userRefreshToken, adminRefreshToken, nextId,
                  users, admins, issued, accepted, last >>

\* config.findRefreshToken(refreshToken) and the check of what it returns.
RefreshFind(p) ==
  /\ tx[p].pc = "rfind"
  /\ LET found == FindRefreshToken(Table(ConfigOf(tx[p].entity).table),
                                   tx[p].token)
     IN IF found = {}
        THEN tx' = [tx EXCEPT ![p].pc = "done",
                              ![p].outcome = errorHandler("UnauthorizedException")]
        ELSE \E storedToken \in found :
               IF storedToken.expiresAt < now \/ storedToken.revoked
               THEN tx' = [tx EXCEPT ![p].pc = "done",
                             ![p].outcome = errorHandler("UnauthorizedException")]
               ELSE tx' = [tx EXCEPT ![p].stored = storedToken.id,
                                     ![p].pc = "rrevoke"]
  /\ UNCHANGED << now, advances, userRefreshToken, adminRefreshToken, nextId,
                  users, admins, issued, accepted, last >>

\* config.revokeRefreshToken(storedToken.id), then the new sessionId and the
\* new token: the update waits for the row lock.
RefreshRevoke(p) ==
  /\ tx[p].pc = "rrevoke"
  /\ \A q \in Procs \ {p} : ~HoldsRowLock(q, tx[p].entity, tx[p].stored)
  /\ SetTable(ConfigOf(tx[p].entity).table,
              RevokeById(Table(ConfigOf(tx[p].entity).table), tx[p].stored))
  /\ tx' = [tx EXCEPT
       ![p].sessionId = ProcUUID(p),
       ![p].newToken = JwtSign(tx[p].principal, NoSession,
                               ConfigOf(tx[p].entity).refreshSecret,
                               ConfigOf(tx[p].entity).refreshDuration * DAY, now),
       ![p].pc = "rstore"]
  /\ UNCHANGED << now, advances, nextId, users, admins, issued, accepted, last >>

\* config.storeRefreshToken(...) and the response with the new cookie.
RefreshStore(p) ==
  /\ tx[p].pc = "rstore"
  /\ LET config == ConfigOf(tx[p].entity)
     IN /\ SetTable(config.table,
                    CreateRow(Table(config.table), nextId[config.table],
                              tx[p].newToken, tx[p].principal, tx[p].sessionId,
                              now + config.refreshDuration * DAY, now))
        /\ nextId' = [nextId EXCEPT ![config.table] = @ + 1]
  /\ issued' = issued \cup { <<tx[p].entity, tx[p].newToken>> }
  /\ accepted' = accepted \cup { <<tx[p].entity, tx[p].token>> }
  /\ tx' = [tx EXCEPT ![p].pc = "done", ![p].outcome = "ok"]
  /\ UNCHANGED << now, advances, users, admins, last >>

\* The response of p is sent; p can take the next request.
ProcRespond(p) ==
  /\ tx[p].pc = "done"
  /\ tx' = [tx EXCEPT ![p] = IdleTx]
  /\ UNCHANGED << now, advances, userRefreshToken, adminRefreshToken, nextId,
                  users, admins, issued, accepted, last >>

\* The rows created or about to be created.
Started == Created + Cardinality({ p \in Procs : tx[p].pc \in
             { "touch", "count", "find", "revoke", "create", "rfind", "rrevoke", "rstore" } })

LoginStartStep ==
  \E p \in Procs :
    \/ \E email \in Users : LoginStart(p, "USER", email)
    \/ \E email \in Admins : LoginStart(p, "ADMIN", email)

RefreshStartStep ==
  \E p \in Procs, it \in issued : RefreshStart(p, ConfigOf(it[1]), it[2])

\* Overlapping logins and refreshes that create at most MaxRows rows.
NextConc ==
  \/ Started < MaxRows /\ LoginStartStep /\ UNCHANGED << loggedOut, scheduler, resets >>
  \/ \E p \in Procs : LoginTouchUser(p) /\ UNCHANGED << loggedOut, scheduler, resets >>
  \/ \E p \in Procs : LoginCount(p) /\ UNCHANGED << loggedOut, scheduler, resets >>
  \/ \E p \in Procs : LoginFindOldest(p) /\ UNCHANGED << loggedOut, scheduler, resets >>
  \/ \E p \in Procs : LoginRevoke(p) /\ UNCHANGED << loggedOut, scheduler, resets >>
  \/ \E p \in Procs : LoginCreate(p) /\ UNCHANGED << loggedOut, scheduler, resets >>
  \/ \E p \in Procs : LoginCommit(p) /\ UNCHANGED << loggedOut, scheduler, resets >>
  \/ Started < MaxRows /\ RefreshStartStep /\ UNCHANGED << loggedOut, scheduler, resets >>
  \/ \E p \in Procs : RefreshFind(p) /\ UNCHANGED << loggedOut, scheduler, resets >>
  \/ \E p \in Procs : RefreshRevoke(p) /\ UNCHANGED << loggedOut, scheduler, resets >>
  \/ \E p \in Procs : RefreshStore(p) /\ UNCHANGED << loggedOut, scheduler, resets >>
  \/ \E p \in Procs : ProcRespond(p) /\ UNCHANGED << loggedOut, scheduler, resets >>

SpecConc == Init /\ [][NextConc]_vars

(* ------------------------- overlapping logouts ------------------------ *)
\* The non-revoked rows a logout of (principal, sessionId) matches.
LogoutMatches(config, principal, sessionId) ==
  { r \in Table(config.table) :
      r.ownerId = principal /\ r.sessionId = sessionId /\ ~r.revoked }

\* A logout request arrives.  stored notes the id of the active row it is
\* aimed at (0 when there is none), as seen on arrival.
LogoutStart(p, config, principal, sessionId) ==
  /\ tx[p].pc = "idle"
  /\ sessionId # NoSession
  /\ tx' = [tx EXCEPT ![p] =
       [ IdleTx EXCEPT
           !.pc = "lupdate", !.op = "logout", !.entity = config.entity,
           !.principal = principal, !.sessionId = sessionId,
           !.stored = IF LogoutMatches(config, principal, sessionId) = {} THEN 0
                      ELSE (CHOOSE r \in LogoutMatches(config, principal, sessionId) : TRUE).id,
           !.overlap = \E q \in Procs \ {p} : InFlight(q) ]]
  /\ UNCHANGED << now, advances, userRefreshToken, adminRefreshToken, nextId,
                  users, admins, issued, accepted, last, loggedOut, scheduler, resets >>

\* A logout that answers from what it read on arrival and then writes.
LogoutUpdateFromRead(p) ==
  /\ tx[p].pc = "lupdate"
  /\ SetTable(ConfigOf(tx[p].entity).table,
              RevokeBySession(Table(ConfigOf(tx[p].entity).table),
                              tx[p].principal, tx[p].sessionId))
  /\ tx' = [tx EXCEPT
       ![p].count = IF tx[p].stored = 0 THEN 0 ELSE 1,
       ![p].outcome = IF tx[p].stored = 0 THEN errorHandler("NotFoundException")
                      ELSE "ok",
       ![p].pc = "done"]
  /\ UNCHANGED << now, advances, nextId, users, admins, issued, accepted,
                  last, loggedOut, scheduler, resets >>

\* The updateMany of logout, one statement: it revokes the matching rows and
\* returns how many it updated; count === 0 throws NotFoundException.
LogoutUpdate(p) ==
  /\ tx[p].pc = "lupdate"
  /\ LET config == ConfigOf(tx[p].entity)
         count == Cardinality(LogoutMatches(config, tx[p].principal, tx[p].sessionId))
     IN /\ SetTable(config.table,
                    RevokeBySession(Table(config.table), tx[p].principal,
                                    tx[p].sessionId))
        /\ tx' = [tx EXCEPT
             ![p].count = count,
             ![p].outcome = IF count = 0 THEN errorHandler("NotFoundException")
                            ELSE "ok",
             ![p].pc = "done"]
  /\ UNCHANGED << now, advances, nextId, users, admins, issued, accepted,
                  last, loggedOut, scheduler, resets >>

LogoutStartStep ==
  \E p \in Procs, userId \in Users :
    \E sessionId \in { r.sessionId : r \in userRefreshToken } :
      LogoutStart(p, userAuthConfig, userId, sessionId)

\* Sessions are created by logins served one at a time while no logout is in
\* flight; logouts overlap, so that whatever happens to a session while
\* logouts are in flight is done by those logouts.
NextConcLogout ==
  \/ /\ Created < MaxConcLogoutRows
     /\ last = Idle
     /\ \A p \in Procs : tx[p].pc = "idle"
     /\ UserLoginStep
     /\ UNCHANGED << tx, loggedOut, scheduler, resets >>
  \/ Respond /\ UNCHANGED << tx, loggedOut, scheduler, resets >>
  \/ last = Idle /\ LogoutStartStep
  \/ \E p \in Procs : LogoutUpdate(p)
  \/ \E p \in Procs : ProcRespond(p) /\ UNCHANGED << loggedOut, scheduler, resets >>

SpecConcLogout == Init /\ [][NextConcLogout]_vars

(* --------------------------- the failure delay ------------------------ *)
\* UserService.login / AdminService.login with an unknown address or a wrong
\* password: the call reaches await new Promise(resolve => setTimeout(
\* resolve, 200)) and gives the event loop back.  overlap notes whether
\* another call was unanswered when this one arrived.
LoginRejectStart(p, entity, email, password) ==
  /\ tx[p].pc = "idle"
  /\ IF entity = "USER"
     THEN IF email \in Users
          THEN ~compare(password, users[email].password) ELSE TRUE
     ELSE IF email \in Admins
          THEN ~compare(password, admins[email].password) ELSE TRUE
  /\ tx' = [tx EXCEPT ![p] =
       [ IdleTx EXCEPT
           !.pc = "delay", !.op = "login", !.entity = entity,
           !.principal = email,
           !.overlap = \E q \in Procs \ {p} : tx[q].pc # "idle" ]]
  /\ UNCHANGED << now, advances, userRefreshToken, adminRefreshToken, nextId,
                  users, admins, issued, accepted, last >>

\* The timer fires: BadRequestException is thrown and answered.
LoginRejectEnd(p) ==
  /\ tx[p].pc = "delay"
  /\ tx' = [tx EXCEPT ![p].pc = "done",
                      ![p].outcome = errorHandler("BadRequestException")]
  /\ UNCHANGED << now, advances, userRefreshToken, adminRefreshToken, nextId,
                  users, admins, issued, accepted, last >>

LoginRejectStartStep ==
  \E p \in Procs, password \in Passwords :
    \/ \E email \in Users \cup {0} : LoginRejectStart(p, "USER", email, password)
    \/ \E email \in Admins \cup {0} : LoginRejectStart(p, "ADMIN", email, password)

\* The calls that are past their start and not waiting in the failure delay.
Serving == { p \in Procs : tx[p].pc \notin { "idle", "delay" } }

\* Refused logins wait in their delay while accepted logins, refreshes and
\* logouts, started one at a time, run their statements.
NextDelay ==
  \/ Serving = {} /\ Started < MaxDelayRows /\ LoginStartStep /\ UNCHANGED << loggedOut, scheduler, resets >>
  \/ \E p \in Procs : LoginTouchUser(p) /\ UNCHANGED << loggedOut, scheduler, resets >>
  \/ \E p \in Procs : LoginCount(p) /\ UNCHANGED << loggedOut, scheduler, resets >>
  \/ \E p \in Procs : LoginFindOldest(p) /\ UNCHANGED << loggedOut, scheduler, resets >>
  \/ \E p \in Procs : LoginRevoke(p) /\ UNCHANGED << loggedOut, scheduler, resets >>
  \/ \E p \in Procs : LoginCreate(p) /\ UNCHANGED << loggedOut, scheduler, resets >>
  \/ \E p \in Procs : LoginCommit(p) /\ UNCHANGED << loggedOut, scheduler, resets >>
  \/ Serving = {} /\ Started < MaxDelayRows /\ RefreshStartStep /\ UNCHANGED << loggedOut, scheduler, resets >>
  \/ \E p \in Procs : RefreshFind(p) /\ UNCHANGED << loggedOut, scheduler, resets >>
  \/ \E p \in Procs : RefreshRevoke(p) /\ UNCHANGED << loggedOut, scheduler, resets >>
  \/ \E p \in Procs : RefreshStore(p) /\ UNCHANGED << loggedOut, scheduler, resets >>
  \/ Serving = {} /\ LogoutStartStep
  \/ \E p \in Procs : LogoutUpdate(p)
  \/ LoginRejectStartStep /\ UNCHANGED << loggedOut, scheduler, resets >>
  \/ \E p \in Procs : LoginRejectEnd(p) /\ UNCHANGED << loggedOut, scheduler, resets >>
  \/ \E p \in Procs : ProcRespond(p) /\ UNCHANGED << loggedOut, scheduler, resets >>

SpecDelay == Init /\ [][NextDelay]_vars

(* ---------------- password changes overlapping refreshes -------------- *)
\* The transaction of p has updated the row of user userId and has not
\* committed yet.
HoldsPasswordLock(p, userId) ==
  /\ tx[p].op \in { "updatePassword", "setPassword" }
  /\ tx[p].principal = userId
  /\ tx[p].pc = "pwrevoke"

\* PasswordService.updatePassword up to the write: the transaction begins,
\* tx.user.findUnique reads the user and compare checks the old password.
UpdatePasswordStart(p, userId, oldPassword, newPassword) ==
  /\ tx[p].pc = "idle"
  /\ tx' = [tx EXCEPT ![p] =
       IF ~compare(oldPassword, users[userId].password)
       THEN [ IdleTx EXCEPT
                !.pc = "done", !.op = "updatePassword", !.entity = "USER",
                !.principal = userId,
                !.outcome = errorHandler("UnauthorizedException") ]
       ELSE [ IdleTx EXCEPT
                !.pc = "pwupdate", !.op = "updatePassword", !.entity = "USER",
                !.principal = userId, !.password = newPassword ]]
  /\ UNCHANGED << now, advances, userRefreshToken, adminRefreshToken, nextId,
                  users, admins, issued, accepted, last >>

\* PasswordService.setPassword up to the write: the transaction begins and
\* tx.user.findFirst looks for the user of the reset token.
SetPasswordStart(p, token, newPassword) ==
  /\ tx[p].pc = "idle"
  /\ LET found == { u \in Users : /\ users[u].resetToken = token
                                  /\ users[u].resetTokenExpiry > now }
     IN IF token = NoReset \/ found = {}
        THEN tx' = [tx EXCEPT ![p] =
               [ IdleTx EXCEPT
                   !.pc = "done", !.op = "setPassword", !.entity = "USER",
                   !.outcome = errorHandler("BadRequestException") ]]
        ELSE \E user \in found :
               tx' = [tx EXCEPT ![p] =
                 [ IdleTx EXCEPT
                     !.pc = "pwupdate", !.op = "setPassword", !.entity = "USER",
                     !.principal = user, !.password = newPassword ]]
  /\ UNCHANGED << now, advances, userRefreshToken, adminRefreshToken, nextId,
                  users, admins, issued, accepted, last >>

\* tx.user.update({where: {id}, data: {password, ...}}): waits for the lock
\* of the user's row; the write is visible at the commit.
PasswordUpdateUser(p) ==
  /\ tx[p].pc = "pwupdate"
  /\ \A q \in Procs \ {p} :
       ~HoldsPasswordLock(q, tx[p].principal) /\ ~HoldsUserLock(q, tx[p].principal)
  /\ tx' = [tx EXCEPT ![p].pc = "pwrevoke"]
  /\ UNCHANGED << now, advances, userRefreshToken, adminRefreshToken, nextId,
                  users, admins, issued, accepted, last >>

\* tx.userRefreshToken.updateMany({where: {userId, revoked: false}, data:
\* {revoked: true}}) on the rows committed when the statement runs, and the
\* commit of the transaction, which makes both writes visible.  overlap notes
\* whether a refresh of a token of the user is in flight at the commit.
PasswordRevokeCommit(p) ==
  /\ tx[p].pc = "pwrevoke"
  /\ users' =
       IF tx[p].op = "setPassword"
       THEN [users EXCEPT ![tx[p].principal].password = hashSync(tx[p].password),
                          ![tx[p].principal].resetToken = NoReset,
                          ![tx[p].principal].resetTokenExpiry = -1]
       ELSE [users EXCEPT ![tx[p].principal].password = hashSync(tx[p].password)]
  /\ userRefreshToken' = RevokeAllOf(userRefreshToken, { tx[p].principal })
  /\ tx' = [tx EXCEPT
       ![p].pc = "done", ![p].outcome = "ok",
       ![p].overlap = \E q \in Procs \ {p} :
                        /\ InFlight(q)
                        /\ tx[q].op = "refresh"
                        /\ tx[q].entity = "USER"
                        /\ tx[q].principal = tx[p].principal ]
  /\ UNCHANGED << now, advances, adminRefreshToken, nextId, admins, issued,
                  accepted, last >>

UpdatePasswordStartStep ==
  \E p \in Procs, userId \in Users, oldPassword \in Passwords,
     newPassword \in NewPasswords :
    UpdatePasswordStart(p, userId, oldPassword, newPassword)

SetPasswordStartStep ==
  \E p \in Procs, newPassword \in NewPasswords :
    \E token \in { users[u].resetToken : u \in Users } \cup { RandomBytes(0, 0) } :
      SetPasswordStart(p, token, newPassword)

\* Sessions are created by logins, and reset links are mailed, while no other
\* call is in flight; refreshes, password changes and password resets
\* overlap.
NextPassword ==
  \/ /\ Created < MaxPasswordRows
     /\ last = Idle
     /\ \A p \in Procs : tx[p].pc = "idle"
     /\ UserLoginStep
     /\ UNCHANGED << tx, loggedOut, scheduler, resets >>
  \/ /\ PendingResets < MaxResets
     /\ last = Idle
     /\ \A p \in Procs : tx[p].pc = "idle"
     /\ ForgotPasswordStep
     /\ UNCHANGED << tx, loggedOut, scheduler, resets >>
  \/ Respond /\ UNCHANGED << tx, loggedOut, scheduler, resets >>
  \/ last = Idle /\ Started < MaxPasswordRows /\ RefreshStartStep /\ UNCHANGED << loggedOut, scheduler, resets >>
  \/ \E p \in Procs : RefreshFind(p) /\ UNCHANGED << loggedOut, scheduler, resets >>
  \/ \E p \in Procs : RefreshRevoke(p) /\ UNCHANGED << loggedOut, scheduler, resets >>
  \/ \E p \in Procs : RefreshStore(p) /\ UNCHANGED << loggedOut, scheduler, resets >>
  \/ last = Idle /\ UpdatePasswordStartStep /\ UNCHANGED << loggedOut, scheduler, resets >>
  \/ last = Idle /\ SetPasswordStartStep /\ UNCHANGED << loggedOut, scheduler, resets >>
  \/ \E p \in Procs : PasswordUpdateUser(p) /\ UNCHANGED << loggedOut, scheduler, resets >>
  \/ \E p \in Procs : PasswordRevokeCommit(p) /\ UNCHANGED << loggedOut, scheduler, resets >>
  \/ \E p \in Procs : ProcRespond(p) /\ UNCHANGED << loggedOut, scheduler, resets >>

SpecPassword == Init /\ [][NextPassword]_vars

(* ------------------------ the scheduled cleanup ----------------------- *)
\* Math.random() * 0.1 of the backoff, in hundredths.
JitterPercents == { 0, 5 }

\* The interval timer fires: cleanupTask is called and the next tick is
\* CLEANUP_INTERVAL later.
IntervalTick ==
  /\ now = scheduler.nextTick
  /\ scheduler' = [ cleanupTask(scheduler)
                    EXCEPT !.nextTick = @ + CLEANUP_INTERVAL \div 1000 ]
  /\ UNCHANGED << now, advances, userRefreshToken, adminRefreshToken, nextId,
                  users, admins, issued, accepted, last, tx, loggedOut, resets >>

\* runCleanup: cleanupInactiveSessions has returned.
CleanupInactiveDone ==
  /\ scheduler.running > 0
  /\ scheduler.phase = "inactive"
  /\ userRefreshToken' = cleanupInactiveSessions(userRefreshToken)
  /\ scheduler' = [scheduler EXCEPT !.phase = "expired"]
  /\ UNCHANGED << now, advances, adminRefreshToken, nextId, users, admins,
                  issued, accepted, last, tx, loggedOut, resets >>

\* runCleanup: cleanupExpiredTokens has returned; the try block resets the
\* backoff and the finally block clears isRunning.
CleanupExpiredDone ==
  /\ scheduler.running > 0
  /\ scheduler.phase = "expired"
  /\ userRefreshToken' = cleanupExpiredTokens(userRefreshToken)
  /\ scheduler' = [scheduler EXCEPT
       !.retryDelay = MIN_RETRY_DELAY, !.retryCount = 0,
       !.isRunning = FALSE, !.running = @ - 1, !.phase = "none"]
  /\ UNCHANGED << now, advances, adminRefreshToken, nextId, users, admins,
                  issued, accepted, last, tx, loggedOut, resets >>

\* A statement of runCleanup throws: the catch block counts the failure and
\* computes Math.min(retryDelay * 2 * (1 + Math.random() * 0.1),
\* MAX_RETRY_DELAY), the finally block clears isRunning.
CleanupThrows ==
  /\ scheduler.running > 0
  /\ scheduler.phase \in { "inactive", "expired" }
  /\ \E jitter \in JitterPercents :
       LET backoff == (scheduler.retryDelay * 2 * (100 + jitter)) \div 100
       IN scheduler' = [scheduler EXCEPT
            !.retryCount = @ + 1,
            !.retryDelay = IF backoff < MAX_RETRY_DELAY THEN backoff
                           ELSE MAX_RETRY_DELAY,
            !.isRunning = FALSE, !.running = @ - 1, !.phase = "none",
            !.failedAt = now]
  /\ UNCHANGED << now, advances, userRefreshToken, adminRefreshToken, nextId,
                  users, admins, issued, accepted, last, tx, loggedOut, resets >>

\* A minute passes, or the time up to the next tick of the interval.
CleanupAdvanceStep ==
  \E d \in { 60, scheduler.nextTick - now } :
    /\ d > 0
    /\ now + d <= scheduler.nextTick
    /\ Advance(d)

\* The scheduler next to logins served one at a time.
NextCleanup ==
  \/ advances < MaxCleanupAdvance /\ CleanupAdvanceStep /\ UNCHANGED << tx, loggedOut, scheduler, resets >>
  \/ Created < MaxCleanupRows /\ last = Idle /\ UserLoginStep /\ UNCHANGED << tx, loggedOut, scheduler, resets >>
  \/ Respond /\ UNCHANGED << tx, loggedOut, scheduler, resets >>
  \/ IntervalTick
  \/ CleanupInactiveDone
  \/ CleanupExpiredDone
  \/ CleanupThrows

SpecCleanup == Init /\ [][NextCleanup]_vars

(* ----------------------- deletion of expired rows --------------------- *)
\* SessionCleanupService.cleanupExpiredTokens(), the second statement of
\* runCleanup.
CleanupExpiredTokens ==
  /\ userRefreshToken' = cleanupExpiredTokens(userRefreshToken)
  /\ last' = Response("cleanupExpiredTokens", "USER", 0, NoToken, NoSession,
                      "ok", NoToken, NoSession)
  /\ UNCHANGED << now, advances, adminRefreshToken, nextId, users, admins,
                  issued, accepted >>

\* Logins and refreshes, a second apart or a session lifetime apart, and
\* the deletion of the expired rows.
NextExpire ==
  \/ advances < MaxExpireAdvance /\ last = Idle /\ AdvanceStep /\ UNCHANGED << tx, loggedOut, scheduler, resets >>
  \/ Created < MaxExpireRows /\ last = Idle /\ UserLoginStep /\ UNCHANGED << tx, loggedOut, scheduler, resets >>
  \/ Created < MaxExpireRows /\ last = Idle /\ AdminLoginStep /\ UNCHANGED << tx, loggedOut, scheduler, resets >>
  \/ Created < MaxExpireRows /\ last = Idle /\ RefreshStep /\ UNCHANGED << tx, loggedOut, scheduler, resets >>
  \/ last = Idle /\ CleanupExpiredTokens /\ UNCHANGED << tx, loggedOut, scheduler, resets >>
  \/ Respond /\ UNCHANGED << tx, loggedOut, scheduler, resets >>

SpecExpire == Init /\ [][NextExpire]_vars

(* --------------------------- password resets -------------------------- *)
\* forgotPassword, and the record of the token it mailed: the token the
\* user's row holds after a request that stored one.
ForgotPasswordRecorded(email, mailSent) ==
  /\ ForgotPassword(email, mailSent)
  /\ resets' =
       IF email \in Users
       THEN [resets EXCEPT
               !.mailed = @ \cup ({ users'[email].resetToken } \ { NoReset })]
       ELSE resets

\* setPassword, and the record of the token it accepted, or refused after
\* it had accepted it.
SetPasswordRecorded(token, newPassword) ==
  /\ SetPassword(token, newPassword)
  /\ resets' =
       IF last'.outcome = "ok"
       THEN [resets EXCEPT !.used = @ \cup { token }]
       ELSE [resets EXCEPT !.refused = @ \cup ({ token } \cap resets.used)]

\* crypto.randomBytes(64) does not return a value it returned before: a
\* request that stores a token stores one that was never mailed.
ForgotPasswordRecordedStep ==
  \E email \in Users \cup {0}, mailSent \in BOOLEAN :
    /\ ForgotPasswordRecorded(email, mailSent)
    /\ (email \in Users /\ users'[email].resetToken \in resets.mailed)
       => users'[email] = users[email]

\* The token of a reset link that was mailed, now or earlier, or a token
\* nobody was sent.
SetPasswordRecordedStep ==
  \E token \in resets.mailed \cup { RandomBytes(0, 0) },
     newPassword \in NewPasswords :
    SetPasswordRecorded(token, newPassword)

\* A second, five minutes or an hour pass.
ResetJumps == { 1, 5 * 60, 3600 }

ResetAdvanceStep == \E d \in ResetJumps : Advance(d)

NextReset ==
  \/ advances < MaxResetAdvance /\ last = Idle /\ ResetAdvanceStep /\ UNCHANGED << tx, loggedOut, scheduler, resets >>
  \/ Created < MaxResetRows /\ last = Idle /\ UserLoginStep /\ UNCHANGED << tx, loggedOut, scheduler, resets >>
  \/ Cardinality(resets.mailed) < MaxMailed /\ last = Idle /\ ForgotPasswordRecordedStep /\ UNCHANGED << tx, loggedOut, scheduler >>
  \/ last = Idle /\ SetPasswordRecordedStep /\ UNCHANGED << tx, loggedOut, scheduler >>
  \/ Respond /\ UNCHANGED << tx, loggedOut, scheduler, resets >>

SpecReset == Init /\ [][NextReset]_vars

(* ------------------ access checks next to revocations ----------------- *)
\* Logins (with evictions), refreshes, logouts and password changes, and
\* access checks between them, within the lifetime of an access token or
\* after it.
NextStateless ==
  \/ advances < MaxStatelessAdvance /\ last = Idle /\ AuthAdvanceStep /\ UNCHANGED << tx, loggedOut, scheduler, resets >>
  \/ Created < MaxStatelessRows /\ last = Idle /\ UserLoginStep /\ UNCHANGED << tx, loggedOut, scheduler, resets >>
  \/ Created < MaxStatelessRows /\ last = Idle /\ AdminLoginStep /\ UNCHANGED << tx, loggedOut, scheduler, resets >>
  \/ Created < MaxStatelessRows /\ last = Idle /\ RefreshStep /\ UNCHANGED << tx, loggedOut, scheduler, resets >>
  \/ last = Idle /\ LogoutStep /\ UNCHANGED << tx, loggedOut, scheduler, resets >>
  \/ last = Idle /\ UpdatePasswordStep /\ UNCHANGED << tx, loggedOut, scheduler, resets >>
  \/ last = Idle /\ AuthenticateStep /\ UNCHANGED << tx, loggedOut, scheduler, resets >>
  \/ Respond /\ UNCHANGED << tx, loggedOut, scheduler, resets >>

SpecStateless == Init /\ [][NextStateless]_vars

(* -------------------- refreshes of deactivated users ------------------ *)
\* Logins and refreshes while an administrator activates and deactivates
\* users.
NextInactive ==
  \/ Created < MaxInactiveRows /\ last = Idle /\ UserLoginStep /\ UNCHANGED << tx, loggedOut, scheduler, resets >>
  \/ Created < MaxInactiveRows /\ last = Idle /\ AdminLoginStep /\ UNCHANGED << tx, loggedOut, scheduler, resets >>
  \/ Created < MaxInactiveRows /\ last = Idle /\ RefreshStep /\ UNCHANGED << tx, loggedOut, scheduler, resets >>
  \/ last = Idle /\ updateUserStep /\ UNCHANGED << tx, loggedOut, scheduler, resets >>
  \/ Respond /\ UNCHANGED << tx, loggedOut, scheduler, resets >>

SpecInactive == Init /\ [][NextInactive]_vars

(* ================= properties of the session store ==================== *)
\* A login has just succeeded.
LoginDone == last.op = "login" /\ last.outcome = "ok"

\* This step is a successful login.
LoginStepDone == last = Idle /\ last'.op = "login" /\ last'.outcome = "ok"

\* The rows of a set have pairwise distinct createdAt.
DistinctCreatedAt(rows) ==
  \A r \in rows, q \in rows : r.createdAt = q.createdAt => r = q

\* C1: after any sequence of logins served one at a time, no user has more
\* than 3 and no admin more than 2 sessions that are not revoked (hence no
\* more than that many active ones).
C1_CapInvariant ==
  /\ \A u \in Users :
       CountActive(userRefreshToken, u) <= USER_MAX_ACTIVE_SESSIONS
  /\ \A a \in Admins :
       CountActive(adminRefreshToken, a) <= ADMIN_MAX_ACTIVE_SESSIONS

\* A user at the cap after a login that had to evict a session.
C1_Witness ==
  /\ LoginDone
  /\ last.entity = "USER"
  /\ CountActive(userRefreshToken, last.principal) = USER_MAX_ACTIVE_SESSIONS
  /\ \E r \in RowsOf(userRefreshToken, last.principal) : r.revoked

\* C5: a successful login of a principal who already has cap non-revoked
\* sessions revokes exactly one of them, one whose createdAt is the earliest
\* among them, leaves every other row as it was and adds the new session; when
\* the principal's cap sessions were created at distinct instants and none was
\* revoked before, the session of the first login is the one revoked and
\* exactly cap sessions stay non-revoked.
C5_FifoEviction ==
  [][ LoginStepDone =>
        LET table == ConfigOf(last'.entity).table
            rows == Table(table)
            rowsAfter == IF table = "userRefreshToken" THEN userRefreshToken'
                         ELSE adminRefreshToken'
            p == last'.principal
            created == { r \in rowsAfter : r.id = nextId[table] }
        IN
        CountActive(rows, p) >= Cap(last'.entity) =>
          /\ \E victim \in ActiveOf(rows, p) :
               /\ \A q \in ActiveOf(rows, p) : victim.createdAt <= q.createdAt
               /\ rowsAfter \ created = RevokeById(rows, victim.id)
          /\ Cardinality(created) = 1
          /\ ( /\ DistinctCreatedAt(RowsOf(rows, p))
               /\ RowsOf(rows, p) = ActiveOf(rows, p)
               /\ CountActive(rows, p) = Cap(last'.entity) )
             => /\ CountActive(rowsAfter, p) = Cap(last'.entity)
                /\ \A r \in RowsOf(rowsAfter, p) :
                     r.revoked <=> (\A q \in RowsOf(rowsAfter, p) : r.id <= q.id)
    ]_vars

\* The fourth login of a user, each a second after the one before: the first
\* session is revoked, the three later ones are not.
C5_Witness ==
  /\ LoginDone
  /\ last.entity = "USER"
  /\ Cardinality(RowsOf(userRefreshToken, last.principal)) = 4
  /\ DistinctCreatedAt(RowsOf(userRefreshToken, last.principal))
  /\ CountActive(userRefreshToken, last.principal) = 3
  /\ \A r \in RowsOf(userRefreshToken, last.principal) :
       r.revoked <=>
         (\A q \in RowsOf(userRefreshToken, last.principal) : r.id <= q.id)

\* What the refresh endpoint of a class would answer now to a token.
RefreshNow(config, refreshToken) ==
  RefreshResults(config, refreshToken, FreshUUID(config.table),
                 Table(config.table), nextId[config.table], now)

\* A refresh has just succeeded.
RefreshDone == last.op = "refresh" /\ last.outcome = "ok"

\* C3: once refresh(T) has succeeded, a later refresh(T) with the same string
\* fails (the claim: with Unauthorized).
C3_OneTimeUse ==
  \A at \in accepted :
    \A result \in RefreshNow(ConfigOf(at[1]), at[2]) : result.outcome # "ok"

\* C6: no step of login, refresh, logout, password change, password reset or
\* cleanup turns a revoked session into a non-revoked one: a revoked row
\* stays revoked for as long as it is stored.
C6_RevocationTerminal ==
  [][ /\ \A r \in userRefreshToken : r.revoked =>
           \A q \in userRefreshToken' : q.id = r.id => q.revoked
      /\ \A r \in adminRefreshToken : r.revoked =>
           \A q \in adminRefreshToken' : q.id = r.id => q.revoked
    ]_vars

\* A refresh has succeeded for a principal while an older session of that
\* principal, revoked before, is still stored and still revoked.
C6_Witness ==
  /\ RefreshDone
  /\ \E r \in Table(ConfigOf(last.entity).table) :
       /\ r.revoked
       /\ r.token # last.token
       /\ r.ownerId = last.token.id
       /\ \E q \in Table(ConfigOf(last.entity).table) :
            q.token = last.token /\ q.revoked /\ q.id > r.id

\* C7: right after refresh(tokenA) has returned tokenB, refresh(tokenB)
\* succeeds and refresh(tokenA) fails with Unauthorized.
C7_RotationChain ==
  RefreshDone =>
    /\ \A result \in RefreshNow(ConfigOf(last.entity), last.newToken) :
         result.outcome = "ok"
    /\ \A result \in RefreshNow(ConfigOf(last.entity), last.token) :
         result.outcome = "UnauthorizedException"

\* C8: a refresh with a token of the class whose stored session is absent,
\* revoked or past its expiresAt fails with Unauthorized and leaves the
\* store as it was.
C8_RejectsDeadSessions ==
  \A it \in issued :
    LET config == ConfigOf(it[1])
        stored == { r \in Table(config.table) : r.token = it[2] }
    IN (\A r \in stored : r.revoked \/ r.expiresAt < now) =>
         \A result \in RefreshNow(config, it[2]) :
           /\ result.outcome = "UnauthorizedException"
           /\ result.rows = Table(config.table)

\* C9: a refresh with a token that fails verification (bad signature or
\* expired) fails with Unauthorized and leaves the store as it was.
C9_VerificationFailureUnauthorized ==
  \A config \in Configs, refreshToken \in PresentableTokens \ { NoToken } :
    JwtVerify(refreshToken, config.refreshSecret, now) # "ok" =>
      \A result \in RefreshNow(config, refreshToken) :
        /\ result.outcome = "UnauthorizedException"
        /\ result.rows = Table(config.table)

\* C10: a refresh under one class's configuration with a token minted for
\* the other class is rejected and changes neither class's table.
C10_CrossClassIsolation ==
  [][ ( /\ last = Idle
        /\ last'.op = "refresh"
        /\ \E it \in issued : it[2] = last'.token /\ it[1] # last'.entity )
      => /\ last'.outcome # "ok"
         /\ UNCHANGED << userRefreshToken, adminRefreshToken >>
    ]_vars

\* The refresh token of a user's live session has just been presented to the
\* admin refresh endpoint, and was refused.
C10_Witness ==
  /\ last.op = "refresh"
  /\ last.entity = "ADMIN"
  /\ <<"USER", last.token>> \in issued
  /\ last.outcome # "ok"
  /\ \E r \in userRefreshToken :
       r.token = last.token /\ ~r.revoked /\ r.expiresAt > now

\* C2: however logins of one principal overlap, once they have finished the
\* principal has at most cap non-revoked sessions.
C2_ConcurrentCap ==
  /\ \A u \in Users :
       CountActive(userRefreshToken, u) <= USER_MAX_ACTIVE_SESSIONS
  /\ \A a \in Admins :
       CountActive(adminRefreshToken, a) <= ADMIN_MAX_ACTIVE_SESSIONS

\* C4: of two refresh calls with the same token that overlap, at most one
\* succeeds.
C4_NoDoubleSpend ==
  \A p \in Procs : \A q \in Procs \ {p} :
    ~ ( /\ tx[p].op = "refresh" /\ tx[q].op = "refresh"
        /\ tx[p].pc = "done" /\ tx[q].pc = "done"
        /\ tx[p].entity = tx[q].entity /\ tx[p].token = tx[q].token
        /\ tx[p].overlap \/ tx[q].overlap
        /\ tx[p].outcome = "ok" /\ tx[q].outcome = "ok" )

\* C11: when a refresh has revoked the consumed session and a later step of it
\* fails (here: persisting the new session), no refresh with the old token
\* is accepted afterwards.
C11_RevokeBeforeMint ==
  ( /\ last.op = "refresh"
    /\ last.outcome = "InternalServerError"
    /\ JwtVerify(last.token, ConfigOf(last.entity).refreshSecret, now) = "ok" )
  => \A result \in RefreshNow(ConfigOf(last.entity), last.token) :
       result.outcome # "ok"

\* C12: a refresh call either revokes the consumed session and creates its
\* replacement (and succeeds), or leaves both tables as they were.
C12_RefreshAllOrNothing ==
  [][ (last = Idle /\ last'.op = "refresh")
      => \/ last'.outcome = "ok"
         \/ UNCHANGED << userRefreshToken, adminRefreshToken >>
    ]_vars

\* C13: a login whose credentials are right and whose create statement fails
\* answers InternalServerError, and every login that does not succeed leaves
\* the tables, lastLogin and the id counters exactly as they were (an
\* eviction is never kept without the new session).
C13_LoginAllOrNothing ==
  [][ /\ (last = Idle /\ last'.op = "login" /\ last'.outcome # "ok")
         => UNCHANGED << userRefreshToken, adminRefreshToken, users, admins,
                         nextId, issued >>
      /\ last = Idle =>
           /\ \A email \in Users, password \in Passwords,
                 sessionId \in UsedUUIDs("userRefreshToken") :
                ( /\ UserLogin(email, password, sessionId)
                  /\ compare(password, users[email].password)
                  /\ users[email].isActive )
                => last'.outcome = "InternalServerError"
           /\ \A email \in Admins, password \in Passwords,
                 sessionId \in UsedUUIDs("adminRefreshToken") :
                ( /\ AdminLogin(email, password, sessionId)
                  /\ compare(password, admins[email].password) )
                => last'.outcome = "InternalServerError"
    ]_vars

\* A login of a principal at the cap has just failed with
\* InternalServerError: the session it would have evicted is not revoked.
C13_Witness ==
  /\ last.op = "login"
  /\ last.outcome = "InternalServerError"
  /\ CountActive(Table(ConfigOf(last.entity).table), last.principal)
       = Cap(last.entity)
  /\ RowsOf(Table(ConfigOf(last.entity).table), last.principal)
       = ActiveOf(Table(ConfigOf(last.entity).table), last.principal)


\* C14: login creates a session and returns tokens only when the principal
\* exists and the password matches its stored hash; an existing principal
\* with a wrong password gets BadRequestException (InvalidCredentials) and
\* no session is created or revoked.  Stated for every login service.
C14_LoginOnlyWithCredentials ==
  [][ \A password \in Passwords :
        /\ \A email \in Users \cup {0} :
             (last = Idle /\ UserLogin(email, password, FreshUUID("userRefreshToken")))
             => /\ last'.outcome = "ok"
                     => email \in Users /\ compare(password, users[email].password)
                /\ (email \in Users /\ ~compare(password, users[email].password))
                     => /\ last'.outcome = "BadRequestException"
                        /\ last'.newToken = NoToken
                        /\ UNCHANGED << userRefreshToken, adminRefreshToken >>
        /\ \A email \in Admins \cup {0} :
             (last = Idle
              /\ \/ AdminLogin(email, password, FreshUUID("adminRefreshToken"))
                 \/ AdminLoginEarlier(email, password, FreshUUID("adminRefreshToken")))
             => /\ last'.outcome = "ok"
                     => email \in Admins /\ compare(password, admins[email].password)
                /\ (email \in Admins /\ ~compare(password, admins[email].password))
                     => /\ last'.outcome = "BadRequestException"
                        /\ last'.newToken = NoToken
                        /\ UNCHANGED << userRefreshToken, adminRefreshToken >>
    ]_vars


\* What a caller observes of a response: the error, the time the handler
\* slept, and the cookies that were set.
Observable(response) ==
  << response.outcome, response.delay, response.newToken, response.newSessionId >>

C16_ActiveCheckAfterCredentials ==
  [][ \A email \in Users, password \in Passwords :
        (/\ last = Idle
         /\ ~users[email].isActive
         /\ UserLogin(email, password, FreshUUID("userRefreshToken")))
        => /\ last'.outcome =
                IF compare(password, users[email].password)
                THEN "ForbiddenException" ELSE "BadRequestException"
           /\ last'.newToken = NoToken
           /\ UNCHANGED << userRefreshToken, adminRefreshToken, users, nextId >>
    ]_vars

\* An inactive user who holds MAX_ACTIVE_SESSIONS sessions was just refused
\* with the right password: a login would have evicted the oldest session.
C16_Witness ==
  /\ last.op = "login"
  /\ last.entity = "USER"
  /\ last.outcome = "ForbiddenException"
  /\ last.principal \in Users
  /\ ~users[last.principal].isActive
  /\ CountActive(userRefreshToken, last.principal) = USER_MAX_ACTIVE_SESSIONS


\* C17: after a logout of (sessionId, principal) has succeeded, a second
\* logout with the same arguments fails with NotFoundException, never with
\* ok or an internal error, and changes nothing.
C17_SecondLogoutNotFound ==
  \A done \in loggedOut :
    LET config == ConfigOf(done[1])
        second == LogoutResult(config, done[2], done[3], Table(config.table))
    IN /\ second.outcome = "NotFoundException"
       /\ second.rows = Table(config.table)

\* The second logout of a session that was logged out was just answered.
C17_Witness ==
  /\ last.op = "logout"
  /\ last.outcome = "NotFoundException"
  /\ << last.entity, last.principal, last.sessionId >> \in loggedOut

\* C18: logout(sessionId, p) revokes only the row whose sessionId and owner
\* both match and that is not yet revoked; with the session id of another
\* principal it fails with NotFoundException and that session stays
\* non-revoked; every other row, of either table, is unchanged.
C18_LogoutOwnershipChecked ==
  [][ \A config \in Configs, principal \in Users \cup Admins,
         sessionId \in AnySessionCookie :
        (last = Idle /\ Logout(config, principal, sessionId))
        => /\ \A r \in userRefreshToken \cup adminRefreshToken :
                \/ r \in userRefreshToken' \cup adminRefreshToken'
                \/ /\ r \in Table(config.table)
                   /\ r.sessionId = sessionId
                   /\ r.ownerId = principal
                   /\ ~r.revoked
                   /\ [r EXCEPT !.revoked = TRUE] \in userRefreshToken' \cup adminRefreshToken'
           /\ Cardinality(userRefreshToken') = Cardinality(userRefreshToken)
           /\ Cardinality(adminRefreshToken') = Cardinality(adminRefreshToken)
           /\ (\E r \in userRefreshToken \cup adminRefreshToken :
                 /\ r.sessionId = sessionId
                 /\ (r.ownerId # principal \/ r \notin Table(config.table)))
              => /\ last'.outcome = "NotFoundException"
                 /\ UNCHANGED << userRefreshToken, adminRefreshToken >>
    ]_vars

\* A logout with the session id of another principal's active session was
\* just answered.
C18_Witness ==
  /\ last.op = "logout"
  /\ last.outcome = "NotFoundException"
  /\ \E r \in Table(ConfigOf(last.entity).table) :
       /\ r.sessionId = last.sessionId
       /\ r.ownerId # last.principal
       /\ ~r.revoked


\* C19: when two logouts for the same (sessionId, principal) run
\* concurrently against a session that is active when each of them arrives,
\* exactly one answers ok and the other answers NotFoundException.
C19_ConcurrentLogoutOneWinner ==
  \A p \in Procs : \A q \in Procs \ {p} :
    ( /\ tx[p].op = "logout" /\ tx[q].op = "logout"
      /\ tx[p].pc = "done" /\ tx[q].pc = "done"
      /\ tx[p].entity = tx[q].entity
      /\ tx[p].principal = tx[q].principal
      /\ tx[p].sessionId = tx[q].sessionId
      /\ tx[p].stored # 0 /\ tx[q].stored # 0 )
    => \/ tx[p].outcome = "ok" /\ tx[q].outcome = "NotFoundException"
       \/ tx[q].outcome = "ok" /\ tx[p].outcome = "NotFoundException"

\* Two logouts of the same active session overlapped and both were answered.
C19_Witness ==
  /\ tx["p1"].op = "logout" /\ tx["p2"].op = "logout"
  /\ tx["p1"].pc = "done" /\ tx["p2"].pc = "done"
  /\ tx["p1"].principal = tx["p2"].principal
  /\ tx["p1"].sessionId = tx["p2"].sessionId
  /\ tx["p1"].stored # 0 /\ tx["p2"].stored # 0
  /\ tx["p1"].overlap \/ tx["p2"].overlap


\* C20: a successful refresh returns the session id of the RefreshSession it
\* created, so that the caller holds the session id of its current (rotated)
\* session and a logout with it revokes that session.
C20_RefreshReturnsSessionId ==
  (last.op = "refresh" /\ last.outcome = "ok")
  => \E r \in Table(ConfigOf(last.entity).table) :
       /\ r.token = last.newToken
       /\ ~r.revoked
       /\ r.sessionId = last.newSessionId


\* The failure kind a caller reads off the answer of the access check.
FailureKind(response) ==
  IF response.outcome = "ok" THEN "none"
  ELSE IF response.errorCode = "TOKEN_EXPIRED" THEN "Expired"
  ELSE IF response.message = "Missing access token" THEN "MissingToken"
  ELSE IF response.message = "Invalid access token" THEN "Invalid"
  ELSE IF response.message \in { "USER not found", "ADMIN not found" }
    THEN "PrincipalNotFound"
  ELSE "other"

\* C21: the access check returns the principal exactly when the bearer
\* token is present, signed with the class's access secret, unexpired, and
\* its id is in the principal store; an expired token yields Expired
\* (TOKEN_EXPIRED), a token not signed with the secret yields Invalid, a
\* valid token of a missing principal yields PrincipalNotFound.
C21_AuthenticateOutcomes ==
  [][ \A config \in Configs, token \in BearerTokens :
        (last = Idle /\ createAuthMiddleware(config, token))
        => LET signed == token # NoToken /\ token.secret = config.jwtSecret
               expired == now >= token.exp
               exists == \/ config.entity = "USER" /\ token.id \in Users
                         \/ config.entity = "ADMIN" /\ token.id \in Admins
           IN /\ last'.outcome \in { "ok", "UnauthorizedException" }
              /\ (last'.outcome = "ok") <=> (signed /\ ~expired /\ exists)
              /\ last'.outcome = "ok" => last'.principal = token.id
              /\ token = NoToken => FailureKind(last') = "MissingToken"
              /\ (signed /\ expired) => FailureKind(last') = "Expired"
              /\ (token # NoToken /\ ~signed) => FailureKind(last') = "Invalid"
              /\ (signed /\ ~expired /\ ~exists)
                   => FailureKind(last') = "PrincipalNotFound"
    ]_vars


C23_RolesIsolatedBySecret ==
  [][ \A config \in Configs :
        /\ \A it \in issued :
             (last = Idle /\ createAuthMiddleware(config, it[2]))
             => /\ last'.outcome = "UnauthorizedException"
                /\ last'.message = "Invalid access token"
        /\ \A token \in AccessTokens :
             (last = Idle
              /\ handleTokenRefresh(config, token, FreshUUID(config.table)))
             => /\ last'.outcome # "ok"
                /\ last'.newToken = NoToken
                /\ UNCHANGED << userRefreshToken, adminRefreshToken, nextId,
                                issued, accepted >>
    ]_vars

\* An unexpired refresh token of the class was just presented as the bearer
\* token of a request to that class's routes.
C23_Witness ==
  /\ last.op = "authenticate"
  /\ << last.entity, last.token >> \in issued
  /\ now < last.token.exp
  /\ last.message = "Invalid access token"


\* No two rows of the table share a session id.
UniqueSessionIds(rows) ==
  \A r1 \in rows : \A r2 \in rows : r1.sessionId = r2.sessionId => r1 = r2

\* C24: session ids are unique: in every reachable state no two rows of a
\* class share a session id (so a principal has at most one live session per
\* session id), and a login or refresh whose new session id is already used
\* fails and adds no row.
C24_SessionIdsUnique ==
  [][ /\ UniqueSessionIds(userRefreshToken) /\ UniqueSessionIds(adminRefreshToken)
      /\ UniqueSessionIds(userRefreshToken') /\ UniqueSessionIds(adminRefreshToken')
      /\ \A password \in Passwords :
           /\ \A email \in Users, sessionId \in UsedUUIDs("userRefreshToken") :
                (last = Idle /\ UserLogin(email, password, sessionId))
                => /\ last'.outcome # "ok"
                   /\ Cardinality(userRefreshToken') = Cardinality(userRefreshToken)
           /\ \A email \in Admins, sessionId \in UsedUUIDs("adminRefreshToken") :
                (last = Idle /\ AdminLogin(email, password, sessionId))
                => /\ last'.outcome # "ok"
                   /\ Cardinality(adminRefreshToken') = Cardinality(adminRefreshToken)
      /\ \A it \in issued :
           \A sessionId \in UsedUUIDs(ConfigOf(it[1]).table) :
             (last = Idle /\ handleTokenRefresh(ConfigOf(it[1]), it[2], sessionId))
             => /\ last'.outcome # "ok"
                /\ Cardinality(userRefreshToken') = Cardinality(userRefreshToken)
                /\ Cardinality(adminRefreshToken') = Cardinality(adminRefreshToken)
    ]_vars

\* A refresh whose new session id was already used has just failed, with
\* several sessions stored.
C24_Witness ==
  /\ last.op = "refresh"
  /\ last.outcome = "InternalServerError"
  /\ JwtVerify(last.token, ConfigOf(last.entity).refreshSecret, now) = "ok"
  /\ Cardinality(Table(ConfigOf(last.entity).table)) >= 2


\* C25: a session-id collision at session creation is retried with a freshly
\* generated id; login and refresh fail with InternalServerError only when
\* the retries are exhausted.  A call whose first generated id is already
\* used, and for which a fresh id is there to be generated, does not fail.
C25_CollisionRetried ==
  [][ /\ \A password \in Passwords :
           /\ \A email \in Users, sessionId \in UsedUUIDs("userRefreshToken") :
                (/\ last = Idle
                 /\ compare(password, users[email].password)
                 /\ users[email].isActive
                 /\ UserLogin(email, password, sessionId))
                => last'.outcome = "ok"
           /\ \A email \in Admins, sessionId \in UsedUUIDs("adminRefreshToken") :
                (/\ last = Idle
                 /\ compare(password, admins[email].password)
                 /\ AdminLogin(email, password, sessionId))
                => last'.outcome = "ok"
      /\ \A it \in issued :
           \A sessionId \in UsedUUIDs(ConfigOf(it[1]).table) :
             (/\ last = Idle
              /\ \E result \in RefreshNow(ConfigOf(it[1]), it[2]) : result.outcome = "ok"
              /\ handleTokenRefresh(ConfigOf(it[1]), it[2], sessionId))
             => last'.outcome = "ok"
    ]_vars


\* The next statement of the request p has in flight.
StatementOf(p) ==
  \/ LoginTouchUser(p) \/ LoginCount(p) \/ LoginFindOldest(p) \/ LoginRevoke(p)
  \/ LoginCreate(p) \/ LoginCommit(p)
  \/ RefreshFind(p) \/ RefreshRevoke(p) \/ RefreshStore(p)
  \/ LogoutUpdate(p) \/ LoginRejectEnd(p)

\* C26: the 200 ms failure delay of login is a yielding timer: while a login
\* waits in it, the waiting call holds no lock of the store, every other
\* call in flight can execute its next statement, and a login, a refresh
\* and a logout can start.
C26_DelayYields ==
  \A p \in Procs : \A q \in Procs \ {p} :
    tx[p].pc = "delay"
    => /\ \A email \in Users : ~HoldsUserLock(p, email)
       /\ \A r \in userRefreshToken \cup adminRefreshToken :
            ~HoldsRowLock(p, "USER", r.id) /\ ~HoldsRowLock(p, "ADMIN", r.id)
       /\ InFlight(q) => ENABLED (StatementOf(q) /\ UNCHANGED << loggedOut, scheduler, resets >>)
       /\ tx[q].pc = "idle"
            => /\ \A email \in Users :
                    ENABLED (LoginStart(q, "USER", email) /\ UNCHANGED << loggedOut, scheduler, resets >>)
               /\ \A email \in Admins :
                    ENABLED (LoginStart(q, "ADMIN", email) /\ UNCHANGED << loggedOut, scheduler, resets >>)
               /\ \A it \in issued :
                    JwtVerify(it[2], ConfigOf(it[1]).refreshSecret, now) = "ok"
                    => ENABLED (RefreshStart(q, ConfigOf(it[1]), it[2])
                                /\ UNCHANGED << loggedOut, scheduler, resets >>)
               /\ \A r \in userRefreshToken :
                    ENABLED LogoutStart(q, userAuthConfig, r.ownerId, r.sessionId)

\* While the login of p1 with a wrong password for a user waits in its
\* delay, which began when p2 had no call, p2 started and completed a login
\* of the same user.
C26_Witness ==
  /\ tx["p1"].pc = "delay"
  /\ tx["p1"].entity = "USER"
  /\ tx["p2"].pc = "done"
  /\ tx["p2"].op = "login"
  /\ tx["p2"].outcome = "ok"
  /\ tx["p2"].entity = "USER"
  /\ tx["p2"].principal = tx["p1"].principal
  /\ ~tx["p1"].overlap


\* C27: a successful updatePassword or setPassword leaves, in the step that
\* writes the password, no non-revoked session of that user, so that every
\* refresh token issued to the user before is rejected right after the call;
\* the sessions of the other users and of the admins are as they were; a
\* call that fails changes no password and no session.
C27_PasswordChangeRevokesAll ==
  [][ (last = Idle /\ last'.op \in { "updatePassword", "setPassword" })
      => IF last'.outcome = "ok"
         THEN /\ ActiveOf(userRefreshToken', last'.principal) = {}
              /\ \A it \in issued : \A config \in Configs :
                   (it[1] = "USER" /\ it[2].id = last'.principal)
                   => \A result \in
                        RefreshResults(config, it[2], FreshUUID(config.table),
                                       IF config.table = "userRefreshToken"
                                       THEN userRefreshToken'
                                       ELSE adminRefreshToken',
                                       nextId[config.table], now) :
                        result.outcome # "ok"
              /\ \A r \in userRefreshToken :
                   r.ownerId # last'.principal => r \in userRefreshToken'
              /\ \A r \in userRefreshToken' :
                   r.ownerId # last'.principal => r \in userRefreshToken
              /\ adminRefreshToken' = adminRefreshToken
         ELSE /\ \A u \in Users : users'[u].password = users[u].password
              /\ UNCHANGED << userRefreshToken, adminRefreshToken >>
    ]_vars

\* A password change has just succeeded for a user who holds two unexpired
\* sessions nobody refreshed, now revoked, while another user holds a
\* session that is not.
C27_Witness ==
  /\ last.op = "updatePassword"
  /\ last.outcome = "ok"
  /\ \E r, q \in RowsOf(userRefreshToken, last.principal) :
       /\ r.id # q.id
       /\ r.revoked /\ q.revoked
       /\ r.expiresAt > now /\ q.expiresAt > now
       /\ \A at \in accepted : at[2] # r.token /\ at[2] # q.token
  /\ \E other \in Users \ { last.principal } :
       ActiveOf(userRefreshToken, other) # {}


\* C28: when a refresh of a token of the user was in flight while
\* updatePassword or setPassword committed, then once both calls have
\* finished the user has no non-revoked session (no login is served between
\* the commit and that moment, so such a session would descend from a token
\* issued before the password change).
C28_RevocationUnderInterleaving ==
  \A p \in Procs : \A q \in Procs \ {p} :
    (/\ tx[p].pc = "done"
     /\ tx[p].op \in { "updatePassword", "setPassword" }
     /\ tx[p].outcome = "ok"
     /\ tx[p].overlap
     /\ tx[q].pc = "done"
     /\ tx[q].op = "refresh"
     /\ tx[q].principal = tx[p].principal)
    => ActiveOf(userRefreshToken, tx[p].principal) = {}


\* C29: the cleanup task never overlaps with itself: at most one runCleanup
\* is in progress, a tick that arrives while one is in progress is skipped,
\* and isRunning is set exactly while a run is in progress (it is cleared
\* when the run returns and when it throws), so that a tick that arrives
\* when no run is in progress starts one.
C29_CleanupNeverOverlaps ==
  [][ /\ scheduler.running <= 1
      /\ scheduler'.running <= 1
      /\ scheduler'.isRunning <=> scheduler'.running = 1
      /\ (IntervalTick /\ scheduler.running = 1)
         => /\ scheduler'.running = 1
            /\ scheduler'.skips = scheduler.skips + 1
            /\ scheduler'.phase = scheduler.phase
      /\ (IntervalTick /\ scheduler.running = 0)
         => /\ scheduler'.running = 1
            /\ scheduler'.skips = scheduler.skips
      /\ (CleanupExpiredDone \/ CleanupThrows) => ~scheduler'.isRunning
    ]_vars

\* A tick was skipped while a run was in progress, that run threw, and a
\* later tick has started a new run.
C29_Witness ==
  /\ scheduler.skips >= 1
  /\ scheduler.retryCount >= 1
  /\ scheduler.isRunning
  /\ scheduler.running = 1

\* C30: after a cleanup run has failed, a new attempt is made once the
\* current retry delay has elapsed: no failed run is left without a new
\* attempt for longer than retryDelay.
C30_RetryAfterBackoff ==
  scheduler.failedAt # -1
  => (now - scheduler.failedAt) * 1000 <= scheduler.retryDelay


\* The answers the refresh endpoint of a class gives to a token when the
\* tables hold userRows and adminRows.
RefreshOutcomes(config, refreshToken, userRows, adminRows) ==
  { result.outcome :
      result \in RefreshResults(config, refreshToken, FreshUUID(config.table),
                                IF config.table = "userRefreshToken"
                                THEN userRows ELSE adminRows,
                                nextId[config.table], now) }

\* C31: cleanupExpiredTokens deletes the user rows with expiresAt < now and
\* no other row, and the answer of refresh to every token, of either class,
\* is the same after the deletion as before it.
C31_ExpiredCleanupTransparent ==
  [][ CleanupExpiredTokens
      => /\ userRefreshToken \ userRefreshToken'
              = { r \in userRefreshToken : r.expiresAt < now }
         /\ userRefreshToken' \subseteq userRefreshToken
         /\ adminRefreshToken' = adminRefreshToken
         /\ \A config \in Configs : \A refreshToken \in PresentableTokens :
              RefreshOutcomes(config, refreshToken,
                              userRefreshToken', adminRefreshToken')
                = RefreshOutcomes(config, refreshToken,
                                  userRefreshToken, adminRefreshToken)
    ]_vars

\* The cleanup has just deleted an expired row of a user and has kept a row
\* of that user whose token the refresh endpoint accepts.
C31_Witness ==
  /\ last.op = "cleanupExpiredTokens"
  /\ \E it \in issued :
       /\ it[1] = "USER"
       /\ it[2].exp < now
       /\ \A r \in userRefreshToken : r.token # it[2]
       /\ \E kept \in userRefreshToken :
            /\ kept.ownerId = it[2].id
            /\ "ok" \in RefreshOutcomes(userAuthConfig, kept.token,
                                        userRefreshToken, adminRefreshToken)


\* C32: a reset token is single-use and time-bounded: setPassword succeeds
\* only for a token that is the stored resetToken of a user with
\* resetTokenExpiry in the future and that no setPassword accepted before;
\* the step that writes the password clears the token; every other call
\* answers BadRequestException (invalid or expired token) and changes no
\* user and no session.
C32_ResetTokenSingleUse ==
  [][ \A token \in resets.mailed \cup { RandomBytes(0, 0) } :
        \A newPassword \in NewPasswords :
          (last = Idle /\ SetPasswordRecorded(token, newPassword))
          => IF last'.outcome = "ok"
             THEN /\ users[last'.principal].resetToken = token
                  /\ users[last'.principal].resetTokenExpiry > now
                  /\ token \notin resets.used
                  /\ users'[last'.principal].resetToken = NoReset
                  /\ users'[last'.principal].password = hashSync(newPassword)
                  /\ \A u \in Users : users'[u].resetToken # token
             ELSE /\ last'.outcome = "BadRequestException"
                  /\ UNCHANGED << users, userRefreshToken, adminRefreshToken >>
    ]_vars

\* A token that setPassword accepted was presented again and refused.
C32_Witness ==
  /\ last.op = "setPassword"
  /\ last.outcome = "BadRequestException"
  /\ resets.refused # {}

C34_TokenStringsUnique ==
  \A rows \in { userRefreshToken, adminRefreshToken } :
    \A r \in rows : \A q \in rows : r.id # q.id => r.token # q.token


\* C35: a refresh that succeeds revokes exactly one row and creates exactly
\* one, both of the principal of the token: that principal has as many
\* non-revoked rows after as before, the rows of every other principal and
\* the other table are unchanged, and a principal within its cap stays
\* within it.
C35_RefreshOneForOne ==
  [][ (last = Idle /\ last'.op = "refresh" /\ last'.outcome = "ok")
      => LET config == ConfigOf(last'.entity)
             principal == last'.token.id
             before == Table(config.table)
             after == IF config.table = "userRefreshToken"
                      THEN userRefreshToken' ELSE adminRefreshToken'
             revokedNow == { r \in before :
                               /\ ~r.revoked
                               /\ \E q \in after : q.id = r.id /\ q.revoked }
             created == { q \in after : \A r \in before : r.id # q.id }
         IN /\ Cardinality(revokedNow) = 1
            /\ Cardinality(created) = 1
            /\ \A r \in revokedNow \cup created : r.ownerId = principal
            /\ \A q \in created : ~q.revoked /\ q.token = last'.newToken
            /\ CountActive(after, principal) = CountActive(before, principal)
            /\ \A other \in (Users \cup Admins) \ { principal } :
                 RowsOf(after, other) = RowsOf(before, other)
            /\ IF config.table = "userRefreshToken"
               THEN adminRefreshToken' = adminRefreshToken
               ELSE userRefreshToken' = userRefreshToken
            /\ CountActive(before, principal) <= Cap(config.entity)
               => CountActive(after, principal) <= Cap(config.entity)
    ]_vars

\* A refresh has just succeeded for a user: the row of the presented token
\* is revoked, the user holds one non-revoked row, the one of the new token,
\* and another user holds a session.
C35_Witness ==
  /\ last.op = "refresh"
  /\ last.outcome = "ok"
  /\ last.entity = "USER"
  /\ \E r \in userRefreshToken : r.token = last.token /\ r.revoked
  /\ \A r \in ActiveOf(userRefreshToken, last.token.id) : r.token = last.newToken
  /\ CountActive(userRefreshToken, last.token.id) = 1
  /\ \E other \in Users \ { last.token.id } :
       ActiveOf(userRefreshToken, other) # {}


\* C36: access tokens are stateless: the answer of authenticate to a token
\* is ok exactly when the token is signed with the class's access secret,
\* unexpired, and of a principal of the store, whatever the session tables
\* hold; a step that changes neither the clock nor the principals (a login
\* with an eviction, a rotation, a logout) changes the answer to no token,
\* and a password change, which writes the user's row, none either.
C36_AccessTokensStateless ==
  [][ \A config \in Configs :
        /\ \A token \in BearerTokens :
             /\ (AuthResponse(config, token).outcome = "ok")
                <=> (/\ token # NoToken
                     /\ JwtVerify(token, config.jwtSecret, now) = "ok"
                     /\ findEntity(config, token.id))
             /\ (last = Idle /\ createAuthMiddleware(config, token))
                => last' = AuthResponse(config, token)
        /\ now' = now
           => \A token \in BearerTokens :
                AuthResponse(config, token)' = AuthResponse(config, token)
    ]_vars

\* An access check has just accepted the token of a principal all of whose
\* sessions are revoked.
C36_Witness ==
  /\ last.op = "authenticate"
  /\ last.outcome = "ok"
  /\ RowsOf(Table(ConfigOf(last.entity).table), last.principal) # {}
  /\ ActiveOf(Table(ConfigOf(last.entity).table), last.principal) = {}


\* C37: refresh does not consult the principal store: a step that changes
\* only the principals changes the answer of refresh to no token; every
\* refresh answers what the token and the rows of its table determine; a
\* token whose row is stored, non-revoked and unexpired is rotated also when
\* its user has been deactivated, while a login of that user with the right
\* password is refused with ForbiddenException.
C37_RefreshIgnoresPrincipalStore ==
  [][ /\ \A config \in Configs : \A refreshToken \in PresentableTokens :
           /\ UNCHANGED << now, userRefreshToken, adminRefreshToken, nextId >>
              => RefreshNow(config, refreshToken)'
                   = RefreshNow(config, refreshToken)
           /\ (last = Idle
               /\ handleTokenRefresh(config, refreshToken, FreshUUID(config.table)))
              => last'.outcome
                   \in RefreshOutcomes(config, refreshToken,
                                       userRefreshToken, adminRefreshToken)
      /\ \A r \in userRefreshToken :
           (/\ ~r.revoked
            /\ ~(r.expiresAt < now)
            /\ JwtVerify(r.token, userAuthConfig.refreshSecret, now) = "ok"
            /\ ~users[r.ownerId].isActive)
           => /\ RefreshOutcomes(userAuthConfig, r.token,
                                 userRefreshToken, adminRefreshToken) = { "ok" }
              /\ \A password \in Passwords :
                   (/\ last = Idle
                    /\ compare(password, users[r.ownerId].password)
                    /\ UserLogin(r.ownerId, password, FreshUUID("userRefreshToken")))
                   => last'.outcome = "ForbiddenException"
    ]_vars

\* A refresh has just rotated the token of a user who is not active.
C37_Witness ==
  /\ last.op = "refresh"
  /\ last.outcome = "ok"
  /\ last.entity = "USER"
  /\ last.newToken # NoToken
  /\ ~users[last.token.id].isActive

====
